---- MODULE Spec2Model ----
(***************************************************************************)
(* Session core of the restaurant backend: login, refresh-token rotation   *)
(* with reuse detection, and logout over the refresh_token_sessions table. *)
(* Every HTTP request is a record of `reqs`; a handler that awaits the     *)
(* store more than once is split at its awaits, so that requests           *)
(* interleave exactly where the Node.js event loop lets them.              *)
(* The Socket.IO server is modelled next to it: the handshake middleware,  *)
(* the rooms, the client events, the four emitters of domain events and    *)
(* the notification history they feed.                                     *)
(* The browser client is modelled last: the fetch wrapper with its shared  *)
(* refresh request, and the singleton Socket.IO client.                    *)
(***************************************************************************)
EXTENDS Integers, Sequences, FiniteSets, TLC

\* ------------------------------------------------------------------ bounds
\* Number of HTTP requests of one behaviour.
MaxReq == 4
\* Last instant of the clock.
MaxTime == 2
\* Number of those requests that the stateless controller serves.
MaxStateless == 1
\* Number of Socket.IO connections attempted in one behaviour.
MaxSockets == 2
\* Number of domain events (orders and tables) emitted in one behaviour.
MaxEvents == 1
\* Number of client events answered in one behaviour.
MaxClientEvents == 1
\* Number of domain events emitted in one behaviour of the history alone.
MaxHistoryEvents == 10
\* Number of client events answered in one behaviour of the order rooms.
MaxRoomEvents == 3
\* Number of domain events emitted in one behaviour of the fan-out.
MaxFanOutEvents == 2
\* Number of HTTP requests in one behaviour of the handshakes that follow
\* them, and number of those handshakes.
MaxHandshakeReqs == 3
MaxHandshakes == 1
\* Number of calls the page makes to the fetch wrapper in one behaviour, and
\* number of calls it makes to connectSocket.
MaxCalls == 2
MaxConnects == 3
\* Number of calls to the fetch wrapper in one behaviour of the socket client.
MaxSocketClientCalls == 1
\* Largest limit passed to getRecentNotifications.
MaxLimit == 10

\* --------------------------------------------------------- program constants
\* Lifetime of an access token ('15m'), in clock units.
ACCESS_TOKEN_EXPIRES_IN == 1
\* Lifetime of a signed refresh token ('7d'), in clock units.
REFRESH_TOKEN_EXPIRES_IN == 2
\* Lifetime of a session row and of the cookie (7 days), in clock units.
REFRESH_TOKEN_MAX_AGE_MS == 2

\* Registered users (usuario_id) and an e-mail that belongs to nobody.
Users == {1, 2}
UnknownUser == 0

\* SQL NULL of a DATE column and of a hash column.
NullDate == -1
NullHash == <<>>

\* A request that carries no refresh token, and a string that is no JWT of
\* this server (bad signature or malformed).
NoToken == [id |-> 0, sessionId |-> 0, exp |-> 0, secret |-> "none"]
ForgedToken == [id |-> 0, sessionId |-> 0, exp |-> 0, secret |-> "forged"]

VARIABLES
    now,        \* the server clock (Date.now())
    sessions,   \* table refresh_token_sessions: sequence indexed by primary key
    uuids,      \* number of crypto.randomUUID() values drawn so far
    reqs,       \* the HTTP requests received so far, in order of arrival
    sockets,    \* the Socket.IO connections attempted so far, in order
    history,    \* notificationHistory.history, most recent first
    appended,   \* the notifications added since the last clearHistory, in order
    emitted,    \* number of domain events emitted so far
    lastEvent,  \* the order or table that the last emitter was called with
    accessToken,              \* localStorage item 'accessToken' of the browser
    refreshInFlightPromise,   \* solicitudes.js: the shared refresh promise
    refreshes,  \* the requests to auth/refresh-token the browser sent, in order
    calls,      \* the calls made to the api object of solicitudes.js, in order
    socketInstance,           \* socketClient.js: the singleton
    socketHandlersRegistrados, \* socketClient.js: handlers registered
    instances,  \* the socket.io-client sockets created by io(), in order
    connects    \* the calls made to connectSocket, in order

vars == <<now, sessions, uuids, reqs>>

\* The state of the Socket.IO server.
socketVars == <<sockets, history, appended, emitted, lastEvent>>

\* The state of the browser client: the fetch wrapper, the socket client.
fetchVars == <<refreshInFlightPromise, refreshes, calls>>
ioVars == <<socketInstance, socketHandlersRegistrados, instances, connects>>
clientVars == <<accessToken, fetchVars, ioVars>>

\* ------------------------------------------------------------- token codec
createAccessToken(userId, t) ==
    [id |-> userId, sessionId |-> 0, exp |-> t + ACCESS_TOKEN_EXPIRES_IN,
     secret |-> "access"]

createRefreshToken(userId, sessionId, t) ==
    [id |-> userId, sessionId |-> sessionId, exp |-> t + REFRESH_TOKEN_EXPIRES_IN,
     secret |-> "refresh"]

\* SHA-256 digest of the token string: a value of another type than the
\* token, equal for equal tokens only.
hashToken_OfUserAlone(token) ==
    <<"sha256", token.id, 0, token.exp, token.secret>>

hashToken(token) ==
    <<"sha256", token.id, token.sessionId, token.exp, token.secret>>

jwtVerify_IgnoresExpiry(token, secret, t) == token.secret = secret

\* jwt.verify(token, secret): the signature is of that secret and the token
\* has not reached its exp.
jwtVerify(token, secret, t) == token.secret = secret /\ t < token.exp

\* !refreshTokenValue: neither cookie nor body field holds a token.
TokenMissing_NeverMissing(token) == FALSE

TokenMissing(token) == token = NoToken

\* ------------------------------------------------------------ session store
Pks == 1..Len(sessions)

IsActive(row) == row.revoked_at = NullDate

\* findOne of refreshToken: primary key of the row matching the token's
\* claims and hash, unrevoked and unexpired; 0 when there is none.
FindActiveSession_IgnoresRevoked(rows, decoded, tokenHash, t) ==
    LET m == {pk \in 1..Len(rows) :
                /\ rows[pk].session_id = decoded.sessionId
                /\ rows[pk].usuario_id = decoded.id
                /\ rows[pk].token_hash = tokenHash
                /\ rows[pk].expires_at > t}
    IN IF m = {} THEN 0 ELSE CHOOSE pk \in m : \A q \in m : pk <= q

FindActiveSession(rows, decoded, tokenHash, t) ==
    LET m == {pk \in 1..Len(rows) :
                /\ rows[pk].session_id = decoded.sessionId
                /\ rows[pk].usuario_id = decoded.id
                /\ rows[pk].token_hash = tokenHash
                /\ rows[pk].revoked_at = NullDate
                /\ rows[pk].expires_at > t}
    IN IF m = {} THEN 0 ELSE CHOOSE pk \in m : \A q \in m : pk <= q

\* RefreshTokenSession.update({revoked_at}, {where: {usuario_id, revoked_at: null}})
RevokeAllActive_OnlyFirst(rows, userId, t) ==
    LET m == {pk \in 1..Len(rows) :
                rows[pk].usuario_id = userId /\ rows[pk].revoked_at = NullDate}
    IN [pk \in 1..Len(rows) |->
          IF m # {} /\ pk = (CHOOSE p \in m : \A q \in m : p <= q)
          THEN [rows[pk] EXCEPT !.revoked_at = t]
          ELSE rows[pk]]

RevokeAllActive_RestampsTerminal(rows, userId, t) ==
    [pk \in 1..Len(rows) |->
       IF rows[pk].usuario_id = userId
       THEN [rows[pk] EXCEPT !.revoked_at = t]
       ELSE rows[pk]]

RevokeAllActive_SparesNewest(rows, userId, t) ==
    [pk \in 1..Len(rows) |->
       IF /\ rows[pk].usuario_id = userId
          /\ rows[pk].revoked_at = NullDate
          /\ \E q \in 1..Len(rows) : q > pk /\ rows[q].usuario_id = userId
       THEN [rows[pk] EXCEPT !.revoked_at = t]
       ELSE rows[pk]]

RevokeAllActive(rows, userId, t) ==
    [pk \in 1..Len(rows) |->
       IF rows[pk].usuario_id = userId /\ rows[pk].revoked_at = NullDate
       THEN [rows[pk] EXCEPT !.revoked_at = t]
       ELSE rows[pk]]

\* RefreshTokenSession.update({revoked_at},
\*     {where: {session_id, usuario_id, revoked_at: null}})
RevokeBySession_AnySessionOfUser(rows, sessionId, userId, t) ==
    [pk \in 1..Len(rows) |->
       IF rows[pk].usuario_id = userId /\ rows[pk].revoked_at = NullDate
       THEN [rows[pk] EXCEPT !.revoked_at = t]
       ELSE rows[pk]]

RevokeBySession_RestampsRevoked(rows, sessionId, userId, t) ==
    [pk \in 1..Len(rows) |->
       IF rows[pk].session_id = sessionId /\ rows[pk].usuario_id = userId
       THEN [rows[pk] EXCEPT !.revoked_at = t]
       ELSE rows[pk]]

RevokeBySession_DestroysRows(rows, sessionId, userId, t) ==
    SelectSeq(rows, LAMBDA row :
        ~(row.session_id = sessionId /\ row.usuario_id = userId
              /\ row.revoked_at = NullDate))

RevokeBySession_AlsoTheSuccessor(rows, sessionId, userId, t) ==
    [pk \in 1..Len(rows) |->
       IF /\ rows[pk].usuario_id = userId
          /\ rows[pk].revoked_at = NullDate
          /\ \/ rows[pk].session_id = sessionId
             \/ \E q \in 1..Len(rows) :
                   /\ rows[q].session_id = sessionId
                   /\ rows[q].replaced_by_token_hash = rows[pk].token_hash
       THEN [rows[pk] EXCEPT !.revoked_at = t]
       ELSE rows[pk]]

RevokeBySession(rows, sessionId, userId, t) ==
    [pk \in 1..Len(rows) |->
       IF /\ rows[pk].session_id = sessionId
          /\ rows[pk].usuario_id = userId
          /\ rows[pk].revoked_at = NullDate
       THEN [rows[pk] EXCEPT !.revoked_at = t]
       ELSE rows[pk]]

\* activeSession.update({revoked_at, replaced_by_token_hash}): an UPDATE of
\* the row read earlier, addressed by its primary key alone.
RotateUpdate_ClearsRevokedAt(rows, pk, t, newHash) ==
    [rows EXCEPT ![pk].revoked_at = NullDate,
                 ![pk].replaced_by_token_hash = newHash]

RotateUpdate(rows, pk, t, newHash) ==
    [rows EXCEPT ![pk].revoked_at = t,
                 ![pk].replaced_by_token_hash = newHash]

\* RefreshTokenSession.create({...}): a new row, unrevoked and unreplaced.
CreateSession_NoMaxAge(rows, sessionId, userId, tokenHash, t) ==
    Append(rows, [session_id |-> sessionId, usuario_id |-> userId,
                  token_hash |-> tokenHash, replaced_by_token_hash |-> NullHash,
                  revoked_at |-> NullDate, expires_at |-> t])

CreateSession_RevokesOlder(rows, sessionId, userId, tokenHash, t) ==
    Append([pk \in 1..Len(rows) |->
              IF rows[pk].usuario_id = userId /\ rows[pk].revoked_at = NullDate
              THEN [rows[pk] EXCEPT !.revoked_at = t]
              ELSE rows[pk]],
           [session_id |-> sessionId, usuario_id |-> userId,
            token_hash |-> tokenHash, replaced_by_token_hash |-> NullHash,
            revoked_at |-> NullDate,
            expires_at |-> t + REFRESH_TOKEN_MAX_AGE_MS])

CreateSession(rows, sessionId, userId, tokenHash, t) ==
    Append(rows, [session_id |-> sessionId, usuario_id |-> userId,
                  token_hash |-> tokenHash, replaced_by_token_hash |-> NullHash,
                  revoked_at |-> NullDate,
                  expires_at |-> t + REFRESH_TOKEN_MAX_AGE_MS])

\* ----------------------------------------------------------------- requests
\* Requests whose response has been sent.
Done == {i \in 1..Len(reqs) : reqs[i].pc = "done"}

\* The refresh tokens handed out in cookies so far: what a client, or
\* whoever stole a cookie, can present.
Issued == {reqs[i].issued : i \in {j \in Done : reqs[j].issued # NoToken}}

Presentable == Issued \cup {NoToken, ForgedToken}

\* A request record. kind: the handler; user: the owner of the e-mail of a
\* login body; passwordIsValid: whether the password of the body matches
\* that user's hash; token: the refresh token presented;
\* pc: where the handler stands; found: the primary key read by findOne;
\* status, cookie, issued, access: the response; exit: the source line that
\* sent it; error: what the catch block caught; preceded: the requests
\* already answered when this one arrived.
Request(kind, user, passwordIsValid, token, pc, found, status, cookie, issued, access, exit, error) ==
    [kind |-> kind, user |-> user, passwordIsValid |-> passwordIsValid,
     token |-> token, pc |-> pc, found |-> found,
     status |-> status, cookie |-> cookie, issued |-> issued, access |-> access,
     exit |-> exit, error |-> error, preceded |-> Done]

Init ==
    /\ now = 0
    /\ sessions = <<>>
    /\ uuids = 0
    /\ reqs = <<>>
    /\ sockets = <<>>
    /\ history = <<>>
    /\ appended = <<>>
    /\ emitted = 0
    /\ lastEvent = [kind |-> "none", pedido_id |-> 0, mesa_id |-> 0]
    /\ accessToken = 0
    /\ refreshInFlightPromise = 0
    /\ refreshes = <<>>
    /\ calls = <<>>
    /\ socketInstance = 0
    /\ socketHandlersRegistrados = FALSE
    /\ instances = <<>>
    /\ connects = <<>>

\* The clock advances.
Tick ==
    /\ now < MaxTime
    /\ now' = now + 1
    /\ UNCHANGED <<sessions, uuids, reqs>>

\* POST /auth/login with the e-mail of `user` (or of nobody), a right or
\* wrong password, and a store that answers or throws.
login_CreatesSessionBeforeCheck(user, passwordIsValid, dbOk) ==
    /\ Len(reqs) < MaxReq
    /\ UNCHANGED now
    /\ uuids' = uuids + 1
    /\ sessions' = IF dbOk /\ user # UnknownUser
                   THEN CreateSession(sessions, uuids + 1, user,
                            hashToken(createRefreshToken(user, uuids + 1, now)), now)
                   ELSE sessions
    /\ LET status == IF ~dbOk THEN 500
                     ELSE IF user = UnknownUser THEN 404
                     ELSE IF ~passwordIsValid THEN 401 ELSE 200
           token  == IF status = 200
                     THEN createRefreshToken(user, uuids + 1, now) ELSE NoToken
       IN reqs' = Append(reqs, Request("login", user, passwordIsValid,
                     NoToken, "done", 0, status,
                     IF status = 200 THEN "set" ELSE "unchanged", token,
                     IF status = 200 THEN createAccessToken(user, now) ELSE NoToken,
                     615, IF dbOk THEN "none" ELSE "db"))

login(user, passwordIsValid, dbOk) ==
    /\ Len(reqs) < MaxReq
    /\ UNCHANGED now
    /\ IF ~dbOk
       THEN \* Usuario.findOne or RefreshTokenSession.create throws
            /\ reqs' = Append(reqs, Request("login", user, passwordIsValid,
                                            NoToken, "done", 0, 500,
                          "unchanged", NoToken, NoToken, 622, "db"))
            /\ UNCHANGED <<sessions, uuids>>
       ELSE IF user = UnknownUser
       THEN /\ reqs' = Append(reqs, Request("login", user, passwordIsValid,
                                            NoToken, "done", 0, 404,
                          "unchanged", NoToken, NoToken, 590, "none"))
            /\ UNCHANGED <<sessions, uuids>>
       ELSE IF ~passwordIsValid
       THEN /\ reqs' = Append(reqs, Request("login", user, passwordIsValid,
                                            NoToken, "done", 0, 401,
                          "unchanged", NoToken, NoToken, 594, "none"))
            /\ UNCHANGED <<sessions, uuids>>
       ELSE LET sessionId == uuids + 1
                refreshTokenValue == createRefreshToken(user, sessionId, now)
            IN /\ uuids' = uuids + 1
               /\ sessions' = CreateSession(sessions, sessionId, user,
                                            hashToken(refreshTokenValue), now)
               /\ reqs' = Append(reqs, Request("login", user, passwordIsValid,
                                               NoToken, "done", 0, 200,
                             "set", refreshTokenValue,
                             createAccessToken(user, now), 615, "none"))

\* The response of request r is sent: its record is completed.
Respond(r, status, cookie, issued, access, exit, error) ==
    [reqs EXCEPT ![r].pc = "done", ![r].status = status, ![r].cookie = cookie,
                 ![r].issued = issued, ![r].access = access, ![r].exit = exit,
                 ![r].error = error]

\* POST /auth/refresh-token, up to the first await: the token is read from
\* the cookie or the body and verified, and findOne looks for its session.
refreshToken(token, dbOk) ==
    /\ Len(reqs) < MaxReq
    /\ token \in Presentable
    /\ UNCHANGED <<now, sessions, uuids>>
    /\ IF TokenMissing(token)
       THEN reqs' = Append(reqs, Request("refresh", UnknownUser, FALSE,
                                         token, "done", 0, 401,
                        "unchanged", NoToken, NoToken, 635, "none"))
       ELSE IF ~jwtVerify(token, "refresh", now)
       THEN reqs' = Append(reqs, Request("refresh", UnknownUser, FALSE,
                                         token, "done", 0, 403,
                        "cleared", NoToken, NoToken, 698, "jwt"))
       ELSE IF ~dbOk
       THEN reqs' = Append(reqs, Request("refresh", UnknownUser, FALSE,
                                         token, "done", 0, 403,
                        "cleared", NoToken, NoToken, 698, "db"))
       ELSE LET activeSession ==
                    FindActiveSession(sessions, token, hashToken(token), now)
            IN reqs' = Append(reqs, Request("refresh", UnknownUser, FALSE,
                                            token,
                           IF activeSession = 0 THEN "reuse" ELSE "rotate",
                           activeSession, 0, "unchanged", NoToken, NoToken,
                           0, "none"))

\* refreshToken after findOne returned null: every active session of the
\* token's user is revoked, the cookie is cleared, 403.
refreshRevokeAll(r, dbOk) ==
    /\ r \in 1..Len(reqs)
    /\ reqs[r].pc = "reuse"
    /\ UNCHANGED <<now, uuids>>
    /\ IF dbOk
       THEN /\ sessions' = RevokeAllActive(sessions, reqs[r].token.id, now)
            /\ reqs' = Respond(r, 403, "cleared", NoToken, NoToken, 663, "none")
       ELSE /\ UNCHANGED sessions
            /\ reqs' = Respond(r, 403, "cleared", NoToken, NoToken, 698, "db")

refreshRotate_CommitsTheUpdateAlone(r, dbOk) ==
    /\ r \in 1..Len(reqs)
    /\ reqs[r].pc = "rotate"
    /\ UNCHANGED now
    /\ uuids' = uuids + 1
    /\ LET decoded == reqs[r].token
           newSessionId == uuids + 1
           newRefreshTokenValue == createRefreshToken(decoded.id, newSessionId, now)
           newRefreshTokenHash == hashToken(newRefreshTokenValue)
       IN IF dbOk
          THEN /\ sessions' = CreateSession(
                                 RotateUpdate(sessions, reqs[r].found, now,
                                              newRefreshTokenHash),
                                 newSessionId, decoded.id, newRefreshTokenHash, now)
               /\ reqs' = Respond(r, 200, "set", newRefreshTokenValue,
                                  createAccessToken(decoded.id, now), 693, "none")
          ELSE /\ sessions' = RotateUpdate(sessions, reqs[r].found, now,
                                           newRefreshTokenHash)
               /\ reqs' = Respond(r, 403, "cleared", NoToken, NoToken, 698, "db")

\* refreshToken after findOne returned a row: one transaction marks that row
\* rotated and inserts its successor; a transaction that throws rolls back.
refreshRotate(r, dbOk) ==
    /\ r \in 1..Len(reqs)
    /\ reqs[r].pc = "rotate"
    /\ UNCHANGED now
    /\ uuids' = uuids + 1
    /\ LET decoded == reqs[r].token
           newSessionId == uuids + 1
           newRefreshTokenValue == createRefreshToken(decoded.id, newSessionId, now)
           newRefreshTokenHash == hashToken(newRefreshTokenValue)
       IN IF dbOk
          THEN /\ sessions' = CreateSession(
                                 RotateUpdate(sessions, reqs[r].found, now,
                                              newRefreshTokenHash),
                                 newSessionId, decoded.id, newRefreshTokenHash, now)
               /\ reqs' = Respond(r, 200, "set", newRefreshTokenValue,
                                  createAccessToken(decoded.id, now), 693, "none")
          ELSE /\ UNCHANGED sessions
               /\ reqs' = Respond(r, 403, "cleared", NoToken, NoToken, 698, "db")

\* Status of the two responses of logout: after the try block and in catch.
LogoutStatus_ErrorSurfaces(error) == IF error = "none" THEN 200 ELSE 500

LogoutStatus(error) == 200

\* POST /auth/logout: best-effort verification, revocation of the token's
\* session, and the same answer whatever happened.
logout(token, dbOk) ==
    /\ Len(reqs) < MaxReq
    /\ token \in Presentable
    /\ UNCHANGED <<now, uuids>>
    /\ IF TokenMissing(token)
       THEN /\ UNCHANGED sessions
            /\ reqs' = Append(reqs, Request("logout", UnknownUser, FALSE,
                                            token, "done", 0,
                          LogoutStatus("none"), "cleared", NoToken, NoToken,
                          728, "none"))
       ELSE IF ~jwtVerify(token, "refresh", now)
       THEN /\ UNCHANGED sessions
            /\ reqs' = Append(reqs, Request("logout", UnknownUser, FALSE,
                                            token, "done", 0,
                          LogoutStatus("jwt"), "cleared", NoToken, NoToken,
                          732, "jwt"))
       ELSE IF ~dbOk
       THEN /\ UNCHANGED sessions
            /\ reqs' = Append(reqs, Request("logout", UnknownUser, FALSE,
                                            token, "done", 0,
                          LogoutStatus("db"), "cleared", NoToken, NoToken,
                          732, "db"))
       ELSE /\ sessions' = RevokeBySession(sessions, token.sessionId, token.id, now)
            /\ reqs' = Append(reqs, Request("logout", UnknownUser, FALSE,
                                            token, "done", 0,
                          LogoutStatus("none"), "cleared", NoToken, NoToken,
                          728, "none"))

\* Requests served by the stateless controller.
Stateless == {i \in 1..Len(reqs) : reqs[i].kind \in {"refreshStateless", "loginStateless"}}

\* The refreshToken of the stateless controller: the token comes from the
\* body, no session row is read or written, and no cookie is touched.
refreshTokenStateless(token) ==
    /\ Len(reqs) < MaxReq
    /\ Cardinality(Stateless) < MaxStateless
    /\ token \in Presentable
    /\ UNCHANGED <<now, sessions, uuids>>
    /\ IF TokenMissing(token)
       THEN reqs' = Append(reqs, Request("refreshStateless", UnknownUser, FALSE,
                                         token, "done", 0,
                        401, "unchanged", NoToken, NoToken, 91, "none"))
       ELSE IF ~jwtVerify(token, "refresh", now)
       THEN reqs' = Append(reqs, Request("refreshStateless", UnknownUser, FALSE,
                                         token, "done", 0,
                        500, "unchanged", NoToken, NoToken, 117, "jwt"))
       ELSE reqs' = Append(reqs, Request("refreshStateless", UnknownUser, FALSE,
                                         token, "done", 0,
                        200, "unchanged", NoToken,
                        createAccessToken(token.id, now), 108, "none"))

\* The login of the stateless controller: the tokens are signed without a
\* session and returned in the body; no session row is written and no
\* cookie is touched.
loginStateless(user, passwordIsValid, mustChangePassword, dbOk) ==
    /\ Len(reqs) < MaxReq
    /\ Cardinality(Stateless) < MaxStateless
    /\ UNCHANGED <<now, sessions, uuids>>
    /\ IF ~dbOk
       THEN reqs' = Append(reqs, Request("loginStateless", user, passwordIsValid,
                                         NoToken, "done", 0,
                        500, "unchanged", NoToken, NoToken, 77, "db"))
       ELSE IF user = UnknownUser
       THEN reqs' = Append(reqs, Request("loginStateless", user, passwordIsValid,
                                         NoToken, "done", 0,
                        404, "unchanged", NoToken, NoToken, 27, "none"))
       ELSE IF ~passwordIsValid
       THEN reqs' = Append(reqs, Request("loginStateless", user, passwordIsValid,
                                         NoToken, "done", 0,
                        401, "unchanged", NoToken, NoToken, 38, "none"))
       ELSE IF mustChangePassword
       THEN reqs' = Append(reqs, Request("loginStateless", user, passwordIsValid,
                                         NoToken, "done", 0,
                        200, "unchanged", NoToken, NoToken, 45, "none"))
       ELSE reqs' = Append(reqs, Request("loginStateless", user, passwordIsValid,
                                         NoToken, "done", 0,
                        200, "unchanged", createRefreshToken(user, 0, now),
                        createAccessToken(user, now), 67, "none"))

Next ==
    \/ Tick /\ UNCHANGED <<socketVars, clientVars>>
    \/ \E user \in Users \cup {UnknownUser}, ok \in BOOLEAN, dbOk \in BOOLEAN :
          /\ user = UnknownUser => ~ok
          /\ login(user, ok, dbOk)
          /\ UNCHANGED <<socketVars, clientVars>>
    \/ \E token \in Presentable, dbOk \in BOOLEAN :
          refreshToken(token, dbOk) /\ UNCHANGED <<socketVars, clientVars>>
    \/ \E r \in 1..Len(reqs), dbOk \in BOOLEAN :
          refreshRevokeAll(r, dbOk) /\ UNCHANGED <<socketVars, clientVars>>
    \/ \E r \in 1..Len(reqs), dbOk \in BOOLEAN :
          refreshRotate(r, dbOk) /\ UNCHANGED <<socketVars, clientVars>>
    \/ \E token \in Presentable, dbOk \in BOOLEAN :
          logout(token, dbOk) /\ UNCHANGED <<socketVars, clientVars>>

\* The deployment that routes the rotating controller.
Spec == Init /\ [][Next]_vars

\* The routes of the stateless controller, the other version of the file
\* the router imports.
StatelessNext ==
    \/ \E token \in Presentable :
          refreshTokenStateless(token) /\ UNCHANGED <<socketVars, clientVars>>
    \/ \E user \in Users \cup {UnknownUser}, ok \in BOOLEAN, must \in BOOLEAN,
            dbOk \in BOOLEAN :
          /\ user = UnknownUser => ~ok
          /\ loginStateless(user, ok, must, dbOk)
          /\ UNCHANGED <<socketVars, clientVars>>

\* Requests served by either version of the controller.
BothControllers == Init /\ [][Next \/ StatelessNext]_vars

\* ------------------------------------------------------------ Socket.IO
\* Rows of table usuarios with their role, by usuario_id.
Usuarios ==
    (1 :> [usuario_id |-> 1, nombre |-> "Carla", nombre_rol |-> "cocinero"]) @@
    (2 :> [usuario_id |-> 2, nombre |-> "Mario", nombre_rol |-> "mesero"]) @@
    (3 :> [usuario_id |-> 3, nombre |-> "Ada", nombre_rol |-> "administrador"]) @@
    (4 :> [usuario_id |-> 4, nombre |-> "Caja", nombre_rol |-> "cajero"])

\* A user whose access token is still around and whose row is gone.
DeletedUser == 5

\* What a client can send as handshake.auth.token: nothing, a string that is
\* no JWT of this server, a refresh token, an access token signed one
\* lifetime ago, and access tokens signed at instant 0.
HandshakeTokens ==
    {NoToken, ForgedToken, createRefreshToken(1, 1, 0),
     createAccessToken(3, 0 - ACCESS_TOKEN_EXPIRES_IN)}
        \cup {createAccessToken(u, 0) : u \in DOMAIN Usuarios \cup {DeletedUser}}

\* The handshakes tried: every token with a store that answers, and one
\* token with a store that throws.
Handshakes ==
    {<<token, TRUE>> : token \in HandshakeTokens}
        \cup {<<createAccessToken(1, 0), FALSE>>}

\* The messages of the Error objects passed to next().
AuthenticationRequired == "Token de autenticación requerido"
InvalidOrExpiredToken == "Token inválido o expirado"
UserNotFound == "Usuario no encontrado"

\* authenticateSocket: the error passed to next ("" for none) and the
\* fields attached to the socket; `thrown` is what the catch block caught.
AuthResult(err, thrown, usuario) ==
    [err |-> err, thrown |-> thrown, userId |-> usuario.usuario_id,
     userRol |-> usuario.nombre_rol, userName |-> usuario.nombre]

NoUsuario == [usuario_id |-> 0, nombre |-> "", nombre_rol |-> ""]

authenticateSocket_OneMessage(token, dbOk, t) ==
    IF token = NoToken \/ ~jwtVerify(token, "access", t) \/ ~dbOk
          \/ token.id \notin DOMAIN Usuarios
    THEN AuthResult(InvalidOrExpiredToken, "jwt", NoUsuario)
    ELSE AuthResult("", "none", Usuarios[token.id])

authenticateSocket_RequiresActiveSession(token, dbOk, t) ==
    IF token = NoToken
    THEN AuthResult(AuthenticationRequired, "none", NoUsuario)
    ELSE IF ~jwtVerify(token, "access", t)
    THEN AuthResult(InvalidOrExpiredToken, "jwt", NoUsuario)
    ELSE IF ~dbOk
    THEN AuthResult(InvalidOrExpiredToken, "db", NoUsuario)
    ELSE IF \/ token.id \notin DOMAIN Usuarios
            \/ ~\E pk \in 1..Len(sessions) :
                   /\ sessions[pk].usuario_id = token.id
                   /\ sessions[pk].revoked_at = NullDate
    THEN AuthResult(UserNotFound, "none", NoUsuario)
    ELSE AuthResult("", "none", Usuarios[token.id])

authenticateSocket(token, dbOk, t) ==
    IF token = NoToken
    THEN AuthResult(AuthenticationRequired, "none", NoUsuario)
    ELSE IF ~jwtVerify(token, "access", t)
    THEN AuthResult(InvalidOrExpiredToken, "jwt", NoUsuario)
    ELSE IF ~dbOk
    THEN AuthResult(InvalidOrExpiredToken, "db", NoUsuario)
    ELSE IF token.id \notin DOMAIN Usuarios
    THEN AuthResult(UserNotFound, "none", NoUsuario)
    ELSE AuthResult("", "none", Usuarios[token.id])

\* The names of the rooms: the fixed ones, and `usuario_${userId}` and
\* `pedido_${pedidoId}`, which interpolate the decimal form of a number or a
\* string as it is.
UserRoom(userId) == "usuario_" \o ToString(userId)

\* A value of data.pedidoId: a number or a string.
Num(n) == [isNumber |-> TRUE, number |-> n, string |-> ""]
Str(str) == [isNumber |-> FALSE, number |-> 0, string |-> str]

\* if (pedidoId): 0 and "" are falsy.
Truthy(v) == IF v.isNumber THEN v.number # 0 ELSE v.string # ""

PedidoRoom_Unprefixed(v) == IF v.isNumber THEN ToString(v.number) ELSE v.string

PedidoRoom(v) ==
    "pedido_" \o (IF v.isNumber THEN ToString(v.number) ELSE v.string)

\* assignUserToRooms: the rooms joined at connect.
assignUserToRooms_AdminSeesOnlyAdmins(userRol, userId) ==
    {"notificaciones_globales", UserRoom(userId)}
        \cup CASE userRol = "cocinero" -> {"cocineros"}
               [] userRol = "mesero" -> {"meseros"}
               [] userRol = "administrador" -> {"administradores"}
               [] OTHER -> {}

assignUserToRooms_GlobalForStaffOnly(userRol, userId) ==
    {UserRoom(userId)}
        \cup CASE userRol = "cocinero" -> {"notificaciones_globales", "cocineros"}
               [] userRol = "mesero" -> {"notificaciones_globales", "meseros"}
               [] userRol = "administrador" ->
                      {"notificaciones_globales", "administradores",
                       "cocineros", "meseros"}
               [] OTHER -> {}

assignUserToRooms(userRol, userId) ==
    {"notificaciones_globales", UserRoom(userId)}
        \cup CASE userRol = "cocinero" -> {"cocineros"}
               [] userRol = "mesero" -> {"meseros"}
               [] userRol = "administrador" ->
                      {"administradores", "cocineros", "meseros"}
               [] OTHER -> {}

\* registerSocketEvents: the events the socket listens to from then on.
registerSocketEvents ==
    {"cliente_conectado", "obtener_historial", "unir_sala_pedido",
     "salir_sala_pedido", "disconnect", "error"}

\* A message as a client receives it: the event name, the ordinal of the
\* domain event that caused it (0 for a reply to the client itself), the
\* order or table it is about, and the payload fields that are sets or
\* sequences.
Message(event, ev, pedido_id, mesa_id, salas, historial) ==
    [event |-> event, ev |-> ev, pedido_id |-> pedido_id, mesa_id |-> mesa_id,
     salas |-> salas, historial |-> historial]

\* A connection that authenticateSocket rejected: next(err) closes it
\* before the 'connection' event, so that its handler never runs.
RejectedSocket_StillJoinsRooms(token, auth) ==
    [state |-> "rejected", token |-> token, err |-> auth.err,
     thrown |-> auth.thrown, userId |-> 0, userRol |-> "", userName |-> "",
     rooms |-> {"notificaciones_globales"}, handlers |-> registerSocketEvents,
     asked |-> <<>>, inbox |-> <<>>]

RejectedSocket(token, auth) ==
    [state |-> "rejected", token |-> token, err |-> auth.err,
     thrown |-> auth.thrown, userId |-> 0, userRol |-> "", userName |-> "",
     rooms |-> {}, handlers |-> {}, asked |-> <<>>, inbox |-> <<>>]

\* A connection that passed the middleware, after the 'connection' handler:
\* rooms assigned, events registered, estado_conexion sent.
ConnectedSocket(token, auth) ==
    LET rooms == assignUserToRooms(auth.userRol, auth.userId)
    IN [state |-> "connected", token |-> token, err |-> "", thrown |-> "none",
        userId |-> auth.userId, userRol |-> auth.userRol,
        userName |-> auth.userName, rooms |-> rooms,
        handlers |-> registerSocketEvents, asked |-> <<>>,
        inbox |-> <<Message("estado_conexion", 0, 0, 0, rooms, <<>>)>>]

\* The connections that are open.
Connected == {k \in 1..Len(sockets) : sockets[k].state = "connected"}

\* A client opens a connection with a token in its handshake.
connect(token, dbOk) ==
    /\ Len(sockets) < MaxSockets
    /\ LET auth == authenticateSocket(token, dbOk, now)
       IN sockets' = Append(sockets, IF auth.err = ""
                                     THEN ConnectedSocket(token, auth)
                                     ELSE RejectedSocket(token, auth))
    /\ UNCHANGED <<history, appended, emitted, lastEvent>>

\* The client closes connection k: the socket leaves all its rooms and its
\* 'disconnect' handler logs the reason.
disconnect(k) ==
    /\ k \in Connected
    /\ sockets' = [sockets EXCEPT ![k].state = "disconnected", ![k].rooms = {}]
    /\ UNCHANGED <<history, appended, emitted, lastEvent>>

\* socket.emit(event, ...): a message to connection k alone.
EmitToSocket(socks, k, message) ==
    [socks EXCEPT ![k].inbox = Append(@, message)]

\* io.to(room).emit(event, ...): a message to every open connection that is
\* in the room.
EmitToRoom(socks, room, message) ==
    [k \in 1..Len(socks) |->
        IF socks[k].state = "connected" /\ room \in socks[k].rooms
        THEN [socks[k] EXCEPT !.inbox = Append(@, message)]
        ELSE socks[k]]

\* A sequence of io.to(room).emit(...) calls, in order.
RECURSIVE EmitAll(_, _)
EmitAll(socks, emits) ==
    IF emits = <<>> THEN socks
    ELSE EmitAll(EmitToRoom(socks, emits[1].room, emits[1].message), Tail(emits))

\* socket.on(event, handler) fires: connection k is sent the event by its
\* client, with data.pedidoId where the event carries one.
Ask(socks, k, event, pedidoId) ==
    [socks EXCEPT ![k].asked = Append(@, [event |-> event, pedidoId |-> pedidoId])]

\* Client events received so far.
ClientEvents ==
    LET RECURSIVE sum(_)
        sum(k) == IF k = 0 THEN 0 ELSE Len(sockets[k].asked) + sum(k - 1)
    IN sum(Len(sockets))

\* Orders and tables that domain events are about, and the values a client
\* sends as data.pedidoId.
PedidoIds == {1, 2}
MesaIds == {1}
PedidoIdInputs == {Num(0), Num(1), Str("1"), Str("cocineros")}

\* notificationHistory.addNotification: unshift, then keep maxHistory.
maxHistory == 6

addNotification_KeepsEverything(hist, notification) == <<notification>> \o hist

addNotification(hist, notification) ==
    LET all == <<notification>> \o hist
    IN IF Len(all) > maxHistory THEN SubSeq(all, 1, maxHistory) ELSE all

\* notificationHistory.getRecentNotifications(limit): history.slice(0, limit).
getRecentNotifications_OldestFirst(hist, limit) ==
    SubSeq(hist, IF limit < Len(hist) THEN Len(hist) - limit + 1 ELSE 1, Len(hist))

\* A negative limit counts from the end, as Array.prototype.slice does.
getRecentNotifications(hist, limit) ==
    LET end == IF limit < 0
               THEN (IF Len(hist) + limit < 0 THEN 0 ELSE Len(hist) + limit)
               ELSE (IF limit < Len(hist) THEN limit ELSE Len(hist))
    IN SubSeq(hist, 1, end)

\* notificationHistory.clearHistory()
clearHistory ==
    /\ history' = <<>>
    /\ appended' = <<>>
    /\ UNCHANGED <<sockets, emitted, lastEvent>>

\* create*Notification: type, order and timestamp (the ordinal of the event).
Notification(type, pedido_id, ev) ==
    [type |-> type, pedido_id |-> pedido_id, ev |-> ev]

\* Connection k is open and has a handler for the event.
Listens(k, event) ==
    /\ k \in Connected
    /\ event \in sockets[k].handlers

\* The value of data.pedidoId for the events that carry no data.
NoPedidoId == Num(0)

\* socket.on('cliente_conectado'): confirmation, and the history for an
\* administrator.
cliente_conectado(k) ==
    /\ Listens(k, "cliente_conectado")
    /\ LET confirmed == EmitToSocket(
                            Ask(sockets, k, "cliente_conectado", NoPedidoId), k,
                            Message("conexion_confirmada", 0, 0, 0, {}, <<>>))
       IN sockets' =
             IF sockets[k].userRol = "administrador"
             THEN EmitToSocket(confirmed, k,
                      Message("historial_dashboard", 0, 0, 0, {},
                              getRecentNotifications(history, maxHistory)))
             ELSE confirmed
    /\ UNCHANGED <<history, appended, emitted, lastEvent>>

obtener_historial_DropsOtherRoles(k) ==
    /\ Listens(k, "obtener_historial")
    /\ LET asked == Ask(sockets, k, "obtener_historial", NoPedidoId)
       IN sockets' =
             IF sockets[k].userRol = "administrador"
             THEN EmitToSocket(asked, k,
                      Message("historial_dashboard", 0, 0, 0, {},
                              getRecentNotifications(history, maxHistory)))
             ELSE asked
    /\ UNCHANGED <<history, appended, emitted, lastEvent>>

\* socket.on('obtener_historial'): the history for an administrator, an
\* error event for anyone else.
obtener_historial(k) ==
    /\ Listens(k, "obtener_historial")
    /\ LET asked == Ask(sockets, k, "obtener_historial", NoPedidoId)
       IN sockets' =
             IF sockets[k].userRol = "administrador"
             THEN EmitToSocket(asked, k,
                      Message("historial_dashboard", 0, 0, 0, {},
                              getRecentNotifications(history, maxHistory)))
             ELSE EmitToSocket(asked, k, Message("error", 0, 0, 0, {}, <<>>))
    /\ UNCHANGED <<history, appended, emitted, lastEvent>>

unir_sala_pedido_Toggles(k, pedidoId) ==
    /\ Listens(k, "unir_sala_pedido")
    /\ LET asked == Ask(sockets, k, "unir_sala_pedido", pedidoId)
           sala == PedidoRoom(pedidoId)
       IN sockets' =
             IF Truthy(pedidoId)
             THEN EmitToSocket(
                      [asked EXCEPT ![k].rooms = IF sala \in @ THEN @ \ {sala}
                                                 ELSE @ \cup {sala}], k,
                      Message("sala_unida", 0, 0, 0, {sala}, <<>>))
             ELSE asked
    /\ UNCHANGED <<history, appended, emitted, lastEvent>>

\* socket.on('unir_sala_pedido'): joins the room of the order named in data.
unir_sala_pedido(k, pedidoId) ==
    /\ Listens(k, "unir_sala_pedido")
    /\ LET asked == Ask(sockets, k, "unir_sala_pedido", pedidoId)
       IN sockets' =
             IF Truthy(pedidoId)
             THEN EmitToSocket(
                      [asked EXCEPT ![k].rooms = @ \cup {PedidoRoom(pedidoId)}], k,
                      Message("sala_unida", 0, 0, 0, {PedidoRoom(pedidoId)}, <<>>))
             ELSE asked
    /\ UNCHANGED <<history, appended, emitted, lastEvent>>

salir_sala_pedido_StaysInRoom(k, pedidoId) ==
    /\ Listens(k, "salir_sala_pedido")
    /\ LET asked == Ask(sockets, k, "salir_sala_pedido", pedidoId)
       IN sockets' =
             IF Truthy(pedidoId)
             THEN EmitToSocket(asked, k,
                      Message("sala_abandonada", 0, 0, 0, {PedidoRoom(pedidoId)}, <<>>))
             ELSE asked
    /\ UNCHANGED <<history, appended, emitted, lastEvent>>

\* socket.on('salir_sala_pedido'): leaves the room of the order named in data.
salir_sala_pedido(k, pedidoId) ==
    /\ Listens(k, "salir_sala_pedido")
    /\ LET asked == Ask(sockets, k, "salir_sala_pedido", pedidoId)
       IN sockets' =
             IF Truthy(pedidoId)
             THEN EmitToSocket(
                      [asked EXCEPT ![k].rooms = @ \ {PedidoRoom(pedidoId)}], k,
                      Message("sala_abandonada", 0, 0, 0, {PedidoRoom(pedidoId)}, <<>>))
             ELSE asked
    /\ UNCHANGED <<history, appended, emitted, lastEvent>>

\* One io.to(room).emit(event, payload) call.
Emit(room, event, notification, mesa_id) ==
    [room |-> room,
     message |-> Message(event, notification.ev, notification.pedido_id,
                         mesa_id, {}, <<>>)]

\* The emits of emitNuevoPedido, in order.
NuevoPedidoEmits_DashboardToEveryone(notification) ==
    << Emit("cocineros", "nuevo_pedido", notification, 0),
       Emit("meseros", "nuevo_pedido", notification, 0),
       Emit("notificaciones_globales", "actualizar_dashboard", notification, 0) >>

NuevoPedidoEmits_SkipsWaiters(notification) ==
    << Emit("cocineros", "nuevo_pedido", notification, 0),
       Emit("administradores", "actualizar_dashboard", notification, 0) >>

NuevoPedidoEmits(notification) ==
    << Emit("cocineros", "nuevo_pedido", notification, 0),
       Emit("meseros", "nuevo_pedido", notification, 0),
       Emit("administradores", "actualizar_dashboard", notification, 0) >>

\* emitNuevoPedido(io, pedido)
emitNuevoPedido(pedido_id) ==
    /\ emitted' = emitted + 1
    /\ lastEvent' = [kind |-> "nuevo_pedido", pedido_id |-> pedido_id, mesa_id |-> 0]
    /\ LET notification == Notification("nuevo_pedido", pedido_id, emitted + 1)
       IN /\ history' = addNotification(history, notification)
          /\ appended' = Append(appended, notification)
          /\ sockets' = EmitAll(sockets, NuevoPedidoEmits(notification))

\* emitCambioEstado(io, pedido, estadoAnterior)
emitCambioEstado(pedido_id) ==
    /\ emitted' = emitted + 1
    /\ lastEvent' = [kind |-> "cambio_estado_pedido", pedido_id |-> pedido_id, mesa_id |-> 0]
    /\ LET notification ==
              Notification("cambio_estado_pedido", pedido_id, emitted + 1)
       IN /\ history' = addNotification(history, notification)
          /\ appended' = Append(appended, notification)
          /\ sockets' = EmitAll(sockets,
                << Emit("cocineros", "cambio_estado_pedido", notification, 0),
                   Emit("meseros", "cambio_estado_pedido", notification, 0),
                   Emit(PedidoRoom(Num(pedido_id)), "cambio_estado_pedido",
                        notification, 0),
                   Emit("administradores", "actualizar_dashboard",
                        notification, 0) >>)

\* emitPedidoCancelado(io, pedido)
emitPedidoCancelado(pedido_id) ==
    /\ emitted' = emitted + 1
    /\ lastEvent' = [kind |-> "pedido_cancelado", pedido_id |-> pedido_id, mesa_id |-> 0]
    /\ LET notification ==
              Notification("pedido_cancelado", pedido_id, emitted + 1)
       IN /\ history' = addNotification(history, notification)
          /\ appended' = Append(appended, notification)
          /\ sockets' = EmitAll(sockets,
                << Emit("notificaciones_globales", "pedido_cancelado",
                        notification, 0),
                   Emit("administradores", "actualizar_dashboard",
                        notification, 0) >>)

emitMesaActualizada_AddsToHistory(mesa_id) ==
    /\ emitted' = emitted + 1
    /\ lastEvent' = [kind |-> "mesa_actualizada", pedido_id |-> 0, mesa_id |-> mesa_id]
    /\ LET notification == Notification("mesa_actualizada", 0, emitted + 1)
       IN /\ history' = addNotification(history, notification)
          /\ appended' = Append(appended, notification)
          /\ sockets' = EmitAll(sockets,
                << Emit("meseros", "mesa_actualizada", notification, mesa_id),
                   Emit("administradores", "mesa_actualizada", notification,
                        mesa_id) >>)

\* emitMesaActualizada(io, mesa): nothing is added to the history.
emitMesaActualizada(mesa_id) ==
    /\ emitted' = emitted + 1
    /\ lastEvent' = [kind |-> "mesa_actualizada", pedido_id |-> 0, mesa_id |-> mesa_id]
    /\ LET notification == Notification("mesa_actualizada", 0, emitted + 1)
       IN sockets' = EmitAll(sockets,
             << Emit("meseros", "mesa_actualizada", notification, mesa_id),
                Emit("administradores", "mesa_actualizada", notification,
                     mesa_id) >>)
    /\ UNCHANGED <<history, appended>>

SocketNext ==
    \/ \E h \in Handshakes : connect(h[1], h[2]) /\ UNCHANGED <<vars, clientVars>>
    \/ \E k \in 1..Len(sockets) : disconnect(k) /\ UNCHANGED <<vars, clientVars>>
    \/ \E k \in 1..Len(sockets) :
          ClientEvents < MaxClientEvents /\ cliente_conectado(k) /\ UNCHANGED <<vars, clientVars>>
    \/ \E k \in 1..Len(sockets) :
          ClientEvents < MaxClientEvents /\ obtener_historial(k) /\ UNCHANGED <<vars, clientVars>>
    \/ \E k \in 1..Len(sockets), pedidoId \in PedidoIdInputs :
          ClientEvents < MaxClientEvents /\ unir_sala_pedido(k, pedidoId)
              /\ UNCHANGED <<vars, clientVars>>
    \/ \E k \in 1..Len(sockets), pedidoId \in PedidoIdInputs :
          ClientEvents < MaxClientEvents /\ salir_sala_pedido(k, pedidoId)
              /\ UNCHANGED <<vars, clientVars>>
    \/ \E pedido_id \in PedidoIds :
          emitted < MaxEvents /\ emitNuevoPedido(pedido_id) /\ UNCHANGED <<vars, clientVars>>
    \/ \E pedido_id \in PedidoIds :
          emitted < MaxEvents /\ emitCambioEstado(pedido_id) /\ UNCHANGED <<vars, clientVars>>
    \/ \E pedido_id \in PedidoIds :
          emitted < MaxEvents /\ emitPedidoCancelado(pedido_id) /\ UNCHANGED <<vars, clientVars>>
    \/ \E mesa_id \in MesaIds :
          emitted < MaxEvents /\ emitMesaActualizada(mesa_id) /\ UNCHANGED <<vars, clientVars>>

\* The Socket.IO server and the domain events the controllers emit.
SocketSpec == Init /\ [][SocketNext]_<<vars, socketVars>>

\* The handshakes of OrderRoomSpec: a valid access token of every role.
RoomHandshakes == {<<createAccessToken(u, 0), TRUE>> : u \in DOMAIN Usuarios}

\* What the clients of OrderRoomSpec send as data.pedidoId.
RoomPedidoIdInputs == {Num(0), Num(1), Str("1"), Num(2)}

OrderRoomNext ==
    \/ \E h \in RoomHandshakes : connect(h[1], h[2]) /\ UNCHANGED <<vars, clientVars>>
    \/ \E k \in 1..Len(sockets), pedidoId \in RoomPedidoIdInputs :
          ClientEvents < MaxRoomEvents /\ unir_sala_pedido(k, pedidoId)
              /\ UNCHANGED <<vars, clientVars>>
    \/ \E k \in 1..Len(sockets), pedidoId \in RoomPedidoIdInputs :
          ClientEvents < MaxRoomEvents /\ salir_sala_pedido(k, pedidoId)
              /\ UNCHANGED <<vars, clientVars>>
    \/ \E pedido_id \in PedidoIds :
          emitted < MaxEvents /\ emitCambioEstado(pedido_id) /\ UNCHANGED <<vars, clientVars>>

\* The rooms of the orders: authenticated connections that join and leave
\* them, and the state changes emitted to them.
OrderRoomSpec == Init /\ [][OrderRoomNext]_<<vars, socketVars>>

\* The access tokens handed out in response bodies so far.
IssuedAccess == {reqs[i].access : i \in {j \in Done : reqs[j].access # NoToken}}

HandshakeNext ==
    \/ Next /\ Len(reqs') <= MaxHandshakeReqs
    \/ \E token \in IssuedAccess :
          /\ Len(sockets) < MaxHandshakes
          /\ connect(token, TRUE)
          /\ UNCHANGED <<vars, clientVars>>

\* The rotating controller, and clients that open a socket with an access
\* token it issued.
HandshakeSpec == Init /\ [][HandshakeNext]_<<vars, socketVars>>

FanOutNext ==
    \/ \E h \in Handshakes : connect(h[1], h[2]) /\ UNCHANGED <<vars, clientVars>>
    \/ \E k \in 1..Len(sockets) : disconnect(k) /\ UNCHANGED <<vars, clientVars>>
    \/ \E pedido_id \in PedidoIds :
          emitted < MaxFanOutEvents /\ emitNuevoPedido(pedido_id)
              /\ UNCHANGED <<vars, clientVars>>
    \/ \E pedido_id \in PedidoIds :
          emitted < MaxFanOutEvents /\ emitCambioEstado(pedido_id)
              /\ UNCHANGED <<vars, clientVars>>
    \/ \E pedido_id \in PedidoIds :
          emitted < MaxFanOutEvents /\ emitPedidoCancelado(pedido_id)
              /\ UNCHANGED <<vars, clientVars>>
    \/ \E mesa_id \in MesaIds :
          emitted < MaxFanOutEvents /\ emitMesaActualizada(mesa_id)
              /\ UNCHANGED <<vars, clientVars>>

\* The domain events in sequence, delivered to connections that send no
\* client event.
FanOutSpec == Init /\ [][FanOutNext]_<<vars, socketVars>>

\* The order that the events of HistorySpec are about.
HistoryPedidoIds == {1}

HistoryNext ==
    \/ \E pedido_id \in HistoryPedidoIds :
          emitted < MaxHistoryEvents /\ emitNuevoPedido(pedido_id)
              /\ UNCHANGED <<vars, clientVars>>
    \/ \E pedido_id \in HistoryPedidoIds :
          emitted < MaxHistoryEvents /\ emitCambioEstado(pedido_id)
              /\ UNCHANGED <<vars, clientVars>>
    \/ \E pedido_id \in HistoryPedidoIds :
          emitted < MaxHistoryEvents /\ emitPedidoCancelado(pedido_id)
              /\ UNCHANGED <<vars, clientVars>>
    \/ \E mesa_id \in MesaIds :
          emitted < MaxHistoryEvents /\ emitMesaActualizada(mesa_id)
              /\ UNCHANGED <<vars, clientVars>>
    \/ clearHistory /\ UNCHANGED <<vars, clientVars>>

\* The notification history under the domain events and clearHistory, with
\* no client connected.
HistorySpec == Init /\ [][HistoryNext]_<<vars, socketVars>>

\* ---------------------------------------------------------- browser client
\* localStorage.getItem('accessToken') returns null; the shared promise is
\* null.
NoAccessToken == 0
NoPromise == 0

\* The endpoints the page asks for: one business endpoint and the three that
\* shouldTryRefresh names.
Endpoints == {"pedidos", "auth/login", "auth/refresh-token", "auth/logout"}
AuthEndpoints == {"auth/login", "auth/refresh-token", "auth/logout"}

\* What fetch() of an endpoint ends in: a response with this status, or a
\* rejection (the network failed).
NetworkError == 0
Statuses == {200, 401, 403, 500, NetworkError}

\* response.ok
Ok(status) == status \in 200..299

\* What fetch() of auth/refresh-token ends in: 200 with an accessToken in
\* the body, 200 without one, a status that is not ok, or a rejection.
RefreshReplies == {"accessToken", "noAccessToken", "notOk", "network"}

\* One call through the api object.  pc is the await the call is suspended
\* at: "awaitToken" (line 144), "sent" (162), "awaitRefresh" (167), "resent"
\* (162 of the retry made at 168), "logoutFinal" (182), "logoutInner" (182 of
\* the retry), "logoutOuter" (170), "logoutApi" (api.logout), or "done".
Call(via, endpoint, isPublic, pc, sends, bearer, awaits, refreshCalls, logouts) ==
    [via |-> via, endpoint |-> endpoint, isPublic |-> isPublic, pc |-> pc,
     sends |-> sends, retries |-> 0, bearer |-> bearer, awaits |-> awaits,
     refreshCalls |-> refreshCalls, refreshedOn |-> {}, logouts |-> logouts,
     status |-> -1, result |-> "none"]

\* return responseData, and throw new Error(...).
Return(call) == [call EXCEPT !.pc = "done", !.result = "value"]
Throw(call, message) == [call EXCEPT !.pc = "done", !.result = message]

\* performLogout up to its await: POST auth/logout is sent.
performLogout(call, pc) == [call EXCEPT !.pc = pc, !.logouts = @ + 1]

shouldTryRefresh_RetriesAgain(endpoint, isPublic, responseStatus, retryAfterRefresh) ==
    /\ ~isPublic
    /\ responseStatus \in {401, 403}
    /\ endpoint \notin AuthEndpoints

shouldTryRefresh(endpoint, isPublic, responseStatus, retryAfterRefresh) ==
    /\ ~isPublic
    /\ ~retryAfterRefresh
    /\ responseStatus \in {401, 403}
    /\ endpoint \notin AuthEndpoints

refreshAccessToken_AlwaysSends(promise, requests) ==
    [promise |-> Len(requests) + 1,
     requests |-> Append(requests, [state |-> "pending",
                                    accessToken |-> NoAccessToken,
                                    callers |-> 1])]

\* refreshAccessToken up to its await: the promise the caller waits for, and
\* the requests sent.  A pending promise is shared; otherwise POST
\* auth/refresh-token is sent and its promise becomes the shared one.
refreshAccessToken(promise, requests) ==
    IF promise # NoPromise
    THEN [promise |-> promise,
          requests |-> [requests EXCEPT ![promise].callers = @ + 1]]
    ELSE [promise |-> Len(requests) + 1,
          requests |-> Append(requests, [state |-> "pending",
                                         accessToken |-> NoAccessToken,
                                         callers |-> 1])]

\* api.get, post, put, delete (isPublic false) and publicGet, publicPost
\* (isPublic true): fetchAPI up to its first await.  A call records the
\* status of the last response to its request (-1 before any) and the
\* statuses on which it called refreshAccessToken.
fetchAPI(endpoint, isPublic) ==
    /\ UNCHANGED accessToken
    /\ IF isPublic \/ accessToken # NoAccessToken
       THEN /\ calls' = Append(calls, Call("fetchAPI", endpoint, isPublic, "sent", 1,
                                 IF isPublic THEN NoAccessToken ELSE accessToken,
                                 NoPromise, 0, 0))
            /\ UNCHANGED <<refreshInFlightPromise, refreshes>>
       ELSE LET rc == refreshAccessToken(refreshInFlightPromise, refreshes)
            IN /\ refreshInFlightPromise' = rc.promise
               /\ refreshes' = rc.requests
               /\ calls' = Append(calls, Call("fetchAPI", endpoint, isPublic,
                                    "awaitToken", 0, NoAccessToken,
                                    rc.promise, 1, 0))

\* api.logout: performLogout up to its await.
apiLogout ==
    /\ calls' = Append(calls, Call("logout", "auth/logout", TRUE, "logoutApi",
                                   0, NoAccessToken, NoPromise, 0, 1))
    /\ UNCHANGED <<accessToken, refreshInFlightPromise, refreshes>>

\* The fetch of line 162 settles for call c: fetchAPI from there to its next
\* await or to its end.  An error thrown by the retry is caught at line 169
\* of the call that made it.
respond(c, status) ==
    /\ c \in 1..Len(calls)
    /\ calls[c].pc \in {"sent", "resent"}
    /\ UNCHANGED accessToken
    /\ LET call == calls[c]
           retryAfterRefresh == call.pc = "resent"
       IN IF /\ status # NetworkError
             /\ shouldTryRefresh(call.endpoint, call.isPublic, status,
                                 retryAfterRefresh)
          THEN LET rc == refreshAccessToken(refreshInFlightPromise, refreshes)
               IN /\ refreshInFlightPromise' = rc.promise
                  /\ refreshes' = rc.requests
                  /\ calls' = [calls EXCEPT ![c] =
                        [call EXCEPT !.pc = "awaitRefresh",
                                     !.status = status,
                                     !.awaits = rc.promise,
                                     !.refreshCalls = @ + 1,
                                     !.refreshedOn = @ \cup {status}]]
          ELSE /\ UNCHANGED <<refreshInFlightPromise, refreshes>>
               /\ calls' = [calls EXCEPT ![c] =
                     LET answered == [call EXCEPT !.status = status]
                     IN IF status \in {401, 403}
                        THEN performLogout(answered, IF retryAfterRefresh
                                                     THEN "logoutInner"
                                                     ELSE "logoutFinal")
                        ELSE IF status = NetworkError \/ ~Ok(status)
                        THEN IF retryAfterRefresh
                             THEN performLogout(answered, "logoutOuter")
                             ELSE Throw(answered, IF status = NetworkError
                                                  THEN "network" ELSE "failed")
                        ELSE Return(answered)]

\* The fetch of performLogout settles for call c, whatever its outcome:
\* clearAuthStorage runs, then the caller goes on: the retry throws into the
\* catch of line 169, which logs out again; the others end.
logoutSettles(c) ==
    /\ c \in 1..Len(calls)
    /\ calls[c].pc \in {"logoutInner", "logoutOuter", "logoutFinal", "logoutApi"}
    /\ accessToken' = NoAccessToken
    /\ UNCHANGED <<refreshInFlightPromise, refreshes>>
    /\ calls' = [calls EXCEPT ![c] =
          IF calls[c].pc = "logoutInner"
          THEN performLogout(calls[c], "logoutOuter")
          ELSE IF calls[c].pc = "logoutApi"
          THEN Return(calls[c])
          ELSE Throw(calls[c], "No autorizado")]

\* The calls suspended on refresh request q.
Waiting(q) ==
    {c \in 1..Len(calls) :
        calls[c].awaits = q /\ calls[c].pc \in {"awaitToken", "awaitRefresh"}}

\* The fetch of auth/refresh-token settles: the shared promise is fulfilled
\* with the new access token, which is stored (line 73), or rejected; the
\* first caller's finally clears the shared promise; then every caller
\* suspended on it goes on, in the same turn of the event loop: to the send
\* of line 162 (from 144, or through the retry of 168, which reads the token
\* just stored), or to its catch (146, or 170).  The token of request q is q.
refreshSettles(reply) ==
    LET q == refreshInFlightPromise
        ok == reply = "accessToken"
    IN /\ q # NoPromise
       /\ refreshes' = [refreshes EXCEPT
             ![q].state = IF ok THEN "fulfilled" ELSE "rejected",
             ![q].accessToken = IF ok THEN q ELSE NoAccessToken]
       /\ refreshInFlightPromise' = NoPromise
       /\ accessToken' =
             IF ok THEN q
             ELSE IF \E c \in Waiting(q) : calls[c].pc = "awaitToken"
             THEN NoAccessToken
             ELSE accessToken
       /\ calls' = [c \in 1..Len(calls) |->
             IF c \notin Waiting(q) THEN calls[c]
             ELSE IF ok
             THEN [calls[c] EXCEPT
                     !.pc = IF @ = "awaitToken" THEN "sent" ELSE "resent",
                     !.sends = @ + 1,
                     !.retries = IF calls[c].pc = "awaitRefresh"
                                 THEN @ + 1 ELSE @,
                     !.bearer = q]
             ELSE IF calls[c].pc = "awaitToken"
             THEN Throw(calls[c], "Token de autenticación no encontrado.")
             ELSE performLogout(calls[c], "logoutOuter")]

\* The responses the browser is waiting for arrive.
Settles ==
    \/ \E c \in 1..Len(calls), status \in Statuses : respond(c, status)
    \/ \E c \in 1..Len(calls) : logoutSettles(c)
    \/ \E reply \in RefreshReplies : refreshSettles(reply)

FetchNext ==
    \/ \E endpoint \in Endpoints, isPublic \in BOOLEAN :
          /\ Len(calls) < MaxCalls
          /\ fetchAPI(endpoint, isPublic)
          /\ UNCHANGED <<vars, socketVars, ioVars>>
    \/ Len(calls) < MaxCalls /\ apiLogout /\ UNCHANGED <<vars, socketVars, ioVars>>
    \/ \E c \in 1..Len(calls), status \in Statuses :
          respond(c, status) /\ UNCHANGED <<vars, socketVars, ioVars>>
    \/ \E c \in 1..Len(calls) :
          logoutSettles(c) /\ UNCHANGED <<vars, socketVars, ioVars>>
    \/ \E reply \in RefreshReplies :
          refreshSettles(reply) /\ UNCHANGED <<vars, socketVars, ioVars>>

\* The fetch wrapper of the browser under any calls of the page and any
\* answers of the server.
FetchSpec == Init /\ [][FetchNext]_clientVars

\* The same, when every request the browser sent is eventually settled.
FetchLiveSpec ==
    /\ Init
    /\ [][FetchNext]_clientVars
    /\ WF_clientVars(Settles /\ UNCHANGED <<vars, socketVars, ioVars>>)

\* ------------------------------------------------------ browser socket client
\* socketInstance is null.
NoSocket == 0

\* A socket made by io(SOCKET_URL, {auth: {token}, autoConnect: true}): the
\* auth object it was made with, which it sends in every handshake, and its
\* state: "connecting", "connected", "refused" or "disconnected" (refused
\* or dropped by the server, still held), or "closed" (disconnect() was
\* called on it).
Socket(token) == [auth |-> token, state |-> "connecting"]

\* One call of connectSocket: the accessToken that localStorage held, the
\* socket returned (NoSocket for null), whether the call started a
\* connection attempt, and the token that attempt presents.
Connect(stored, returned, attempt, presented) ==
    [stored |-> stored, returned |-> returned, attempt |-> attempt,
     presented |-> presented]

\* mensaje.includes('token') || includes('jwt') || includes('unauthorized')
\* || includes('no autorizado'), for the messages the server refuses a
\* handshake with.
ForcesLogout(message) ==
    message \in {AuthenticationRequired, InvalidOrExpiredToken}

\* connectSocket.  socketInstance.connect() on a socket that is connecting
\* starts nothing; on one that is not connected it starts a handshake with
\* the auth object the socket was made with.  connect() of socket.io-client
\* does not throw, so the catch of lines 79-81 is never entered.
connectSocket ==
    LET token == accessToken
    IN /\ UNCHANGED <<accessToken, fetchVars>>
       /\ IF token = NoAccessToken
          THEN /\ connects' = Append(connects,
                      Connect(token, NoSocket, FALSE, NoAccessToken))
               /\ UNCHANGED <<socketInstance, socketHandlersRegistrados, instances>>
          ELSE IF /\ socketInstance # NoSocket
                  /\ instances[socketInstance].state = "connected"
          THEN /\ connects' = Append(connects,
                      Connect(token, socketInstance, FALSE, NoAccessToken))
               /\ UNCHANGED <<socketInstance, socketHandlersRegistrados, instances>>
          ELSE IF socketInstance # NoSocket
          THEN LET attempt == instances[socketInstance].state
                                  \in {"refused", "disconnected"}
               IN /\ instances' = [instances EXCEPT
                                     ![socketInstance].state = "connecting"]
                  /\ connects' = Append(connects,
                         Connect(token, socketInstance, attempt,
                                 IF attempt
                                 THEN instances[socketInstance].auth
                                 ELSE NoAccessToken))
                  /\ UNCHANGED <<socketInstance, socketHandlersRegistrados>>
          ELSE /\ instances' = Append(instances, Socket(token))
               /\ socketInstance' = Len(instances) + 1
               /\ socketHandlersRegistrados' = TRUE
               /\ connects' = Append(connects,
                      Connect(token, Len(instances) + 1, TRUE, token))

\* disconnectSocket: the socket held loses its listeners and is closed.
disconnectSocket ==
    /\ UNCHANGED <<accessToken, fetchVars, connects>>
    /\ IF socketInstance = NoSocket
       THEN UNCHANGED <<socketInstance, socketHandlersRegistrados, instances>>
       ELSE /\ instances' = [instances EXCEPT ![socketInstance].state = "closed"]
            /\ socketInstance' = NoSocket
            /\ socketHandlersRegistrados' = FALSE

\* The server accepts the handshake of socket i.
onConnect(i) ==
    /\ i \in 1..Len(instances)
    /\ instances[i].state = "connecting"
    /\ instances' = [instances EXCEPT ![i].state = "connected"]
    /\ UNCHANGED <<accessToken, fetchVars, socketInstance,
                   socketHandlersRegistrados, connects>>

\* The server ends the connection of socket i; the socket stays held.
onDisconnect(i) ==
    /\ i \in 1..Len(instances)
    /\ instances[i].state = "connected"
    /\ instances' = [instances EXCEPT ![i].state = "disconnected"]
    /\ UNCHANGED <<accessToken, fetchVars, socketInstance,
                   socketHandlersRegistrados, connects>>

\* 'connect_error' on socket i with the message the server refused the
\* handshake with.  A message about the token runs disconnectSocket and
\* clearSessionAndRedirectToLogin: localStorage is cleared and the page is
\* reloaded, which drops the shared promise and every call in progress.
onConnectError(i, message) ==
    /\ i \in 1..Len(instances)
    /\ instances[i].state = "connecting"
    /\ UNCHANGED connects
    /\ IF ForcesLogout(message)
       THEN /\ instances' = [instances EXCEPT ![i].state = "closed"]
            /\ socketInstance' = NoSocket
            /\ socketHandlersRegistrados' = FALSE
            /\ accessToken' = NoAccessToken
            /\ refreshInFlightPromise' = NoPromise
            /\ refreshes' = [q \in 1..Len(refreshes) |->
                  IF refreshes[q].state = "pending"
                  THEN [refreshes[q] EXCEPT !.state = "unloaded"]
                  ELSE refreshes[q]]
            /\ calls' = [c \in 1..Len(calls) |->
                  IF calls[c].pc # "done"
                  THEN Throw(calls[c], "unloaded")
                  ELSE calls[c]]
       ELSE /\ instances' = [instances EXCEPT ![i].state = "refused"]
            /\ UNCHANGED <<accessToken, fetchVars, socketInstance,
                           socketHandlersRegistrados>>

SocketClientNext ==
    \/ /\ Len(calls) < MaxSocketClientCalls
       /\ fetchAPI("pedidos", FALSE)
       /\ UNCHANGED <<vars, socketVars, ioVars>>
    \/ \E c \in 1..Len(calls), status \in Statuses :
          respond(c, status) /\ UNCHANGED <<vars, socketVars, ioVars>>
    \/ \E c \in 1..Len(calls) :
          logoutSettles(c) /\ UNCHANGED <<vars, socketVars, ioVars>>
    \/ \E reply \in RefreshReplies :
          refreshSettles(reply) /\ UNCHANGED <<vars, socketVars, ioVars>>
    \/ Len(connects) < MaxConnects /\ connectSocket /\ UNCHANGED <<vars, socketVars>>
    \/ disconnectSocket /\ UNCHANGED <<vars, socketVars>>
    \/ \E i \in 1..Len(instances) : onConnect(i) /\ UNCHANGED <<vars, socketVars>>
    \/ \E i \in 1..Len(instances) : onDisconnect(i) /\ UNCHANGED <<vars, socketVars>>
    \/ \E i \in 1..Len(instances),
          message \in {AuthenticationRequired, InvalidOrExpiredToken, UserNotFound} :
          onConnectError(i, message) /\ UNCHANGED <<vars, socketVars>>

\* The socket client of the browser, next to one call of the fetch wrapper,
\* which is what stores and replaces the access token.
SocketClientSpec == Init /\ [][SocketClientNext]_clientVars

\* ------------------------------------------------------------- vocabulary
\* Requests of the rotating refresh handler, and of logout.
Refreshes == {i \in 1..Len(reqs) : reqs[i].kind = "refresh"}
Logouts == {i \in 1..Len(reqs) : reqs[i].kind = "logout"}

\* Primary keys of the unrevoked rows: all of them, and those of one user.
ActivePks == {pk \in Pks : IsActive(sessions[pk])}
ActiveOf(userId) == {pk \in ActivePks : sessions[pk].usuario_id = userId}

\* Primary key of the row that stores this hash, 0 when no row does.
PkOfHash(h) ==
    IF \E pk \in Pks : sessions[pk].token_hash = h
    THEN CHOOSE pk \in Pks : sessions[pk].token_hash = h
    ELSE 0

\* The rotation chain of a row: the row, then the row whose token_hash is its
\* replaced_by_token_hash, and so on (at most n further rows).
RECURSIVE ChainFrom(_, _)
ChainFrom(pk, n) ==
    LET next == PkOfHash(sessions[pk].replaced_by_token_hash)
    IN IF n = 0 \/ sessions[pk].replaced_by_token_hash = NullHash \/ next = 0
       THEN <<pk>>
       ELSE <<pk>> \o ChainFrom(next, n - 1)

Chain(pk) == ChainFrom(pk, Len(sessions))

Range(seq) == {seq[i] : i \in 1..Len(seq)}

\* The refresh tokens that descend from a login's token through successful
\* rotations (at most n generations).
RECURSIVE Lineage(_, _)
Lineage(tokens, n) ==
    LET more == tokens \cup {reqs[i].issued :
                    i \in {j \in Refreshes \cap Done :
                             reqs[j].status = 200 /\ reqs[j].token \in tokens}}
    IN IF n = 0 \/ more = tokens THEN tokens ELSE Lineage(more, n - 1)

\* Successful logins, and the successful rotations of one login's lineage.
Logins == {i \in Done : reqs[i].kind = "login" /\ reqs[i].status = 200}
RotationsOf(l) ==
    {i \in Refreshes \cap Done :
        reqs[i].status = 200 /\ reqs[i].token \in Lineage({reqs[l].issued}, MaxReq)}

\* Some logout update or some reuse revocation has run for this user.
Disturbed(userId) ==
    \E i \in Done :
        /\ reqs[i].token.id = userId
        /\ \/ reqs[i].kind = "logout" /\ reqs[i].exit = 728
           \/ reqs[i].kind = "refresh" /\ reqs[i].exit = 663

\* ------------------------------------------------------------------ claims
\* C1: of the rotating refresh requests that present the same refresh token,
\* at most one is answered 200; two successes for one token are unreachable.
C1_OneSuccessPerToken ==
    \A i, j \in Refreshes :
        (i # j /\ reqs[i].token = reqs[j].token /\ reqs[i].pc = "done"
               /\ reqs[j].pc = "done")
            => ~(reqs[i].status = 200 /\ reqs[j].status = 200)

\* C2: the rotation chain of every login row holds at most one ACTIVE row;
\* and when neither logout nor reuse detection has touched the user, after
\* n successful rotations of the login's lineage the chain has n + 1 rows,
\* the last ACTIVE and every earlier one terminal and pointing, by
\* replaced_by_token_hash, at the token_hash of the next.
C2_ChainHasOneActiveRow ==
    \A l \in Logins :
        LET first == PkOfHash(hashToken(reqs[l].issued))
            chain == Chain(first)
            n     == Cardinality(RotationsOf(l))
        IN /\ first # 0
           /\ Cardinality(Range(chain) \cap ActivePks) <= 1
           /\ ~Disturbed(reqs[l].issued.id) =>
                 /\ Len(chain) = n + 1
                 /\ IsActive(sessions[chain[Len(chain)]])
                 /\ \A k \in 1..(Len(chain) - 1) :
                       /\ ~IsActive(sessions[chain[k]])
                       /\ sessions[chain[k]].replaced_by_token_hash
                              = sessions[chain[k + 1]].token_hash

\* Request r is answered in this step.
Completes(r) ==
    /\ r \in 1..Len(reqs')
    /\ reqs'[r].pc = "done"
    /\ r > Len(reqs) \/ reqs[r].pc # "done"

\* Unrevoked rows of a user in a given table.
ActiveIn(rows, userId) ==
    {pk \in 1..Len(rows) :
        rows[pk].usuario_id = userId /\ rows[pk].revoked_at = NullDate}

\* The successful rotations, answered before request r arrived, that
\* presented the token r presents: r replays their token.
Replayed(rq, r) ==
    {q \in rq[r].preceded :
        rq[q].kind = "refresh" /\ rq[q].status = 200 /\ rq[q].token = rq[r].token}

\* Request p presents the successor token of a rotation whose token was
\* replayed by a request answered before p arrived; detected is what is
\* asked of that replay.
FollowsReplay(rq, p, detected(_)) ==
    \E r \in rq[p].preceded :
        /\ rq[r].kind = "refresh"
        /\ detected(r)
        /\ \E q \in Replayed(rq, r) : rq[p].token = rq[q].issued

Arrives(r) == r = Len(reqs) + 1 /\ Len(reqs') = r

\* No row of the table matches the token's sessionId, userId and hash with
\* revoked_at null and expires_at later than t.
NoRowMatches(rows, token, t) ==
    ~\E pk \in 1..Len(rows) :
        /\ rows[pk].session_id = token.sessionId
        /\ rows[pk].usuario_id = token.id
        /\ rows[pk].token_hash = hashToken(token)
        /\ rows[pk].revoked_at = NullDate
        /\ rows[pk].expires_at > t

\* The reuse case at the step that answers r: r is a refresh whose token
\* verified and whose lookup returned no row (it stands in the reuse branch).
ReuseCase(r) == r \in 1..Len(reqs) /\ reqs[r].pc = "reuse"

\* What the reuse case is claimed to leave behind: 403, the cookie cleared,
\* every row of the token's user revoked, no row added.
ReuseOutcome(r) ==
    /\ reqs'[r].status = 403
    /\ reqs'[r].cookie = "cleared"
    /\ reqs'[r].issued = NoToken
    /\ Len(sessions') = Len(sessions)
    /\ \A pk \in 1..Len(sessions') :
          sessions'[pk].usuario_id = reqs'[r].token.id
              => sessions'[pk].revoked_at # NullDate

C5_TerminalStaysTerminal ==
    [][\A pk \in Pks :
          sessions[pk].revoked_at # NullDate =>
             /\ pk \in 1..Len(sessions')
             /\ sessions'[pk].revoked_at # NullDate]_vars

\* C5 (witness): two store-changing requests, one answered before the other
\* arrived, presented the token of one row, and that row is terminal.
C5_Witness ==
    \E pk \in Pks, r1, r2 \in Done :
        /\ r1 \in reqs[r2].preceded
        /\ reqs[r1].exit \in {693, 728, 663}
        /\ reqs[r2].exit \in {693, 728, 663}
        /\ hashToken(reqs[r1].token) = sessions[pk].token_hash
        /\ hashToken(reqs[r2].token) = sessions[pk].token_hash
        /\ ~IsActive(sessions[pk])

\* C6: in the state right after a login is answered 200, the response holds
\* an access token and exactly one row stores the hash of the refresh token
\* issued; that row is unrevoked and unreplaced, belongs to the user who
\* logged in, and expires REFRESH_TOKEN_MAX_AGE_MS from now.
C6_LoginCreatesOneActiveRow ==
    [][\A r \in 1..Len(reqs') :
          (Completes(r) /\ reqs'[r].kind = "login" /\ reqs'[r].status = 200) =>
             LET rows == {pk \in 1..Len(sessions') :
                            sessions'[pk].token_hash = hashToken(reqs'[r].issued)}
             IN /\ reqs'[r].access # NoToken
                /\ reqs'[r].access.id = reqs'[r].user
                /\ reqs'[r].issued # NoToken
                /\ Cardinality(rows) = 1
                /\ \A pk \in rows :
                      /\ sessions'[pk].revoked_at = NullDate
                      /\ sessions'[pk].replaced_by_token_hash = NullHash
                      /\ sessions'[pk].usuario_id = reqs'[r].user
                      /\ sessions'[pk].expires_at = now + REFRESH_TOKEN_MAX_AGE_MS]_vars

\* C6 (witness): a login was answered 200 when the table already held rows.
C6_Witness ==
    \E l \in Logins : PkOfHash(hashToken(reqs[l].issued)) > 1

\* C7: a refresh request that presents no token is answered 401 at once and
\* the session table is the same before and after.
C7_MissingTokenIs401 ==
    [][\A r \in 1..Len(reqs') :
          (Arrives(r) /\ reqs'[r].kind = "refresh" /\ reqs'[r].token = NoToken) =>
             /\ reqs'[r].pc = "done"
             /\ reqs'[r].status = 401
             /\ sessions' = sessions]_vars

\* C7 (witness): a refresh without token was answered while a session was
\* ACTIVE.
C7_Witness ==
    \E r \in Refreshes \cap Done :
        reqs[r].token = NoToken /\ reqs[r].status = 401 /\ ActivePks # {}

\* Requests to the refresh endpoint, whichever controller serves it.
RefreshEndpoint(rq) ==
    {i \in 1..Len(rq) : rq[i].kind \in {"refresh", "refreshStateless"}}

\* C8: the refresh endpoint answers 200 (a rotation succeeded), 401 (no
\* token was presented) or 403 and nothing else; a presented token that
\* fails signature or expiry verification is answered 403 with the cookie
\* cleared and no session row changed.
C8_RefreshAnswers200_401_403 ==
    [][\A r \in RefreshEndpoint(reqs') :
          Completes(r) =>
             /\ reqs'[r].status \in {200, 401, 403}
             /\ reqs'[r].status = 401 <=> reqs'[r].token = NoToken
             /\ reqs'[r].status = 200 =>
                   /\ reqs'[r].issued # NoToken
                   /\ reqs'[r].cookie = "set"
                   /\ Len(sessions') = Len(sessions) + 1
             /\ (Arrives(r) /\ reqs'[r].token # NoToken
                    /\ ~jwtVerify(reqs'[r].token, "refresh", now)) =>
                   /\ reqs'[r].status = 403
                   /\ reqs'[r].cookie = "cleared"
                   /\ sessions' = sessions]_vars

\* C9: every logout is answered 200 with the refresh cookie cleared: with
\* no token, with a token that fails verification, with a token whose
\* session is not active any more, and when the store update throws.
C9_LogoutAlways200 ==
    \A r \in Logouts \cap Done :
        /\ reqs[r].status = 200
        /\ reqs[r].cookie = "cleared"
        /\ reqs[r].issued = NoToken

\* C9 (witness): logouts were answered without token, with a token that did
\* not verify, and with a verified token whose store update threw.
C9_Witness ==
    /\ \E r \in Logouts \cap Done : reqs[r].token = NoToken
    /\ \E r \in Logouts \cap Done : reqs[r].error = "jwt"
    /\ \E r \in Logouts \cap Done : reqs[r].error = "db"

\* Logout r follows logout f directly: f was the last request to arrive and
\* nothing has been answered since f was.
InARow(rq, f, r) ==
    /\ r = f + 1
    /\ rq[f].kind = "logout"
    /\ rq[f].pc = "done"
    /\ rq[r].preceded = rq[f].preceded \cup {f}

ChangedRows == {pk \in Pks : pk \in 1..Len(sessions') /\ sessions'[pk] # sessions[pk]}

\* Row pk is as before the step but for revoked_at, stamped with the clock.
OnlyRevoked(pk) == sessions'[pk] = [sessions[pk] EXCEPT !.revoked_at = now]

\* C11: a logout changes only rows whose session_id and usuario_id are the
\* claims of its token and whose revoked_at was null, and those it only
\* stamps with revoked_at; when its update ran (line 728 with a verified
\* token) every such row is stamped; every other row is as before and no row
\* is created.
C11_LogoutRevokesOnlyItsSession ==
    [][\A r \in 1..Len(reqs') :
          (Completes(r) /\ reqs'[r].kind = "logout") =>
             LET token == reqs'[r].token
                 mine  == {pk \in Pks :
                             /\ sessions[pk].session_id = token.sessionId
                             /\ sessions[pk].usuario_id = token.id
                             /\ sessions[pk].revoked_at = NullDate}
             IN /\ Len(sessions') = Len(sessions)
                /\ ChangedRows \subseteq mine
                /\ \A pk \in ChangedRows : OnlyRevoked(pk)
                /\ (reqs'[r].error = "none" /\ token # NoToken)
                      => ChangedRows = mine]_vars

\* C11 (witness): a logout with a verified token was answered after its
\* update ran, its session is revoked, another session of the same user is
\* still ACTIVE and so is a session of another user.
C11_Witness ==
    \E r \in Logouts \cap Done :
        /\ reqs[r].exit = 728 /\ reqs[r].token # NoToken
        /\ \E pk \in Pks :
              /\ sessions[pk].session_id = reqs[r].token.sessionId
              /\ ~IsActive(sessions[pk])
        /\ ActiveOf(reqs[r].token.id) # {}
        /\ \E u \in Users \ {reqs[r].token.id} : ActiveOf(u) # {}

\* C12: the bulk update of the reuse branch changes only rows of the token's
\* user whose revoked_at was null, and those it only stamps with revoked_at:
\* terminal rows keep revoked_at and replaced_by_token_hash, rows of other
\* users are as before, and no row is created.
C12_ForcedRevocationFrame ==
    [][\A r \in 1..Len(reqs') :
          (Completes(r) /\ reqs'[r].kind = "refresh" /\ ReuseCase(r)) =>
             /\ Len(sessions') = Len(sessions)
             /\ ChangedRows \subseteq ActiveOf(reqs'[r].token.id)
             /\ \A pk \in ChangedRows : OnlyRevoked(pk)
             /\ \A pk \in Pks \ ActivePks :
                   /\ sessions'[pk].revoked_at = sessions[pk].revoked_at
                   /\ sessions'[pk].replaced_by_token_hash
                          = sessions[pk].replaced_by_token_hash]_vars

\* C12 (witness): a forced revocation ran at a later instant than the
\* rotation that had made a row of the same user terminal, and a session of
\* another user is ACTIVE.
C12_Witness ==
    \E r \in Refreshes \cap Done :
        /\ reqs[r].exit = 663
        /\ \E pk, pk2 \in Pks :
              /\ sessions[pk].usuario_id = reqs[r].token.id
              /\ sessions[pk].replaced_by_token_hash # NullHash
              /\ sessions[pk2].usuario_id = reqs[r].token.id
              /\ sessions[pk2].replaced_by_token_hash = NullHash
              /\ sessions[pk2].revoked_at > sessions[pk].revoked_at
        /\ \E u \in Users \ {reqs[r].token.id} : ActiveOf(u) # {}

\* C13: no step deletes a session row: the table never shrinks, and every
\* row keeps its primary key, session_id, usuario_id and token_hash.
C13_RowsAreNeverDeleted ==
    [][/\ Len(sessions') >= Len(sessions)
       /\ \A pk \in Pks :
             /\ sessions'[pk].session_id = sessions[pk].session_id
             /\ sessions'[pk].usuario_id = sessions[pk].usuario_id
             /\ sessions'[pk].token_hash = sessions[pk].token_hash]_vars

\* C13 (witness): a rotation, a logout update and a forced revocation have
\* all run, and the rows of all of them are in the table.
C13_Witness ==
    /\ \E r \in Done : reqs[r].exit = 693
    /\ \E r \in Done : reqs[r].exit = 728 /\ reqs[r].token # NoToken
    /\ \E r \in Done : reqs[r].exit = 663
    /\ Len(sessions) >= 2
    /\ ActivePks = {}

\* C14: no two rows share a session_id and no two share a token_hash, so at
\* most one unrevoked row stores a given hash; and the session_id of the
\* token a rotation issues differs from that of the token presented and is
\* the session_id of exactly one row.
C14_SessionKeysAreUnique ==
    /\ \A pk, pk2 \in Pks :
          pk # pk2 =>
             /\ sessions[pk].session_id # sessions[pk2].session_id
             /\ sessions[pk].token_hash # sessions[pk2].token_hash
    /\ \A r \in Refreshes \cap Done :
          reqs[r].status = 200 =>
             /\ reqs[r].issued.sessionId # reqs[r].token.sessionId
             /\ Cardinality({pk \in Pks :
                    sessions[pk].session_id = reqs[r].issued.sessionId}) = 1

\* C14 (witness): one user logged in twice at the same instant and one of
\* the two sessions was rotated at that instant too.
C14_Witness ==
    \E l1, l2 \in Logins, r \in Refreshes \cap Done :
        /\ l1 # l2
        /\ reqs[l1].user = reqs[l2].user
        /\ reqs[l1].issued.exp = reqs[l2].issued.exp
        /\ reqs[r].status = 200
        /\ reqs[r].token = reqs[l1].issued
        /\ reqs[r].issued.exp = reqs[l1].issued.exp

\* Requests to the login endpoint, whichever controller serves it.
LoginEndpoint(rq) ==
    {i \in 1..Len(rq) : rq[i].kind \in {"login", "loginStateless"}}

\* C15: a login whose e-mail belongs to nobody is answered 404 and a login
\* with a wrong password 401 (the store answering); a login answered 404 or
\* 401 leaves the session table as it was, sets no cookie and returns
\* neither refresh nor access token.
C15_FailedLoginChangesNothing ==
    [][\A r \in LoginEndpoint(reqs') :
          Completes(r) =>
             /\ (reqs'[r].user = UnknownUser /\ reqs'[r].error = "none")
                   => reqs'[r].status = 404
             /\ (reqs'[r].user # UnknownUser /\ ~reqs'[r].passwordIsValid
                    /\ reqs'[r].error = "none")
                   => reqs'[r].status = 401
             /\ reqs'[r].status \in {404, 401} =>
                   /\ sessions' = sessions
                   /\ reqs'[r].cookie = "unchanged"
                   /\ reqs'[r].issued = NoToken
                   /\ reqs'[r].access = NoToken]_vars

\* C15 (witness): the rotating login answered 404 and 401 and the stateless
\* login answered 404 or 401, while a session was ACTIVE.
C15_Witness ==
    /\ \E r \in Done : reqs[r].kind = "login" /\ reqs[r].status = 404
    /\ \E r \in Done : reqs[r].kind = "login" /\ reqs[r].status = 401
    /\ \E r \in Done : reqs[r].kind = "loginStateless"
                          /\ reqs[r].status \in {404, 401}
    /\ ActivePks # {}

\* A token that authenticateSocket does not accept at instant t: missing,
\* not verifiable with the access secret, or of a user without row.
Unauthenticated(token, t) ==
    \/ token = NoToken
    \/ ~jwtVerify(token, "access", t)
    \/ token.id \notin DOMAIN Usuarios

\* C16: a connection whose handshake carried no token, an invalid or
\* expired token or the token of an unknown user, and any connection that
\* next(err) rejected, is in no room, has no event handler and has been
\* sent nothing: rooms are assigned only to authenticated connections.
C16_RejectedSocketHasNoRoom ==
    \A k \in 1..Len(sockets) :
        (Unauthenticated(sockets[k].token, now) \/ sockets[k].err # "") =>
            /\ sockets[k].state = "rejected"
            /\ sockets[k].rooms = {}
            /\ sockets[k].handlers = {}
            /\ sockets[k].inbox = <<>>

\* C16 (witness): a handshake with an expired access token was rejected
\* while another connection is open and has received a domain event.
C16_Witness ==
    \E k, j \in 1..Len(sockets) :
        /\ sockets[k].state = "rejected"
        /\ sockets[k].token.secret = "access"
        /\ sockets[k].token.exp <= now
        /\ sockets[j].state = "connected"
        /\ \E i \in 1..Len(sockets[j].inbox) : sockets[j].inbox[i].ev > 0

\* C17: a handshake without token is rejected with the authentication-
\* required error, one whose token fails verification with the access
\* secret with the invalid-or-expired error, one whose user lookup returns
\* no row with the user-not-found error, the three messages being different;
\* an accepted connection carries the usuario_id, role and name of the row
\* looked up.
C17_RejectionNamesItsCause ==
    /\ Cardinality({AuthenticationRequired, InvalidOrExpiredToken, UserNotFound}) = 3
    /\ \A k \in 1..Len(sockets) :
          LET token == sockets[k].token
          IN /\ token = NoToken => sockets[k].err = AuthenticationRequired
             /\ (token # NoToken /\ ~jwtVerify(token, "access", now))
                   => sockets[k].err = InvalidOrExpiredToken
             /\ (token # NoToken /\ jwtVerify(token, "access", now)
                    /\ sockets[k].thrown = "none"
                    /\ token.id \notin DOMAIN Usuarios)
                   => sockets[k].err = UserNotFound
             /\ sockets[k].err = "" =>
                   /\ token.id \in DOMAIN Usuarios
                   /\ sockets[k].userId = Usuarios[token.id].usuario_id
                   /\ sockets[k].userRol = Usuarios[token.id].nombre_rol
                   /\ sockets[k].userName = Usuarios[token.id].nombre

\* C17 (witness): one handshake was rejected because the user's row is
\* gone and another because its token had expired.
C17_Witness ==
    \E k, j \in 1..Len(sockets) :
        /\ sockets[k].err = UserNotFound
        /\ sockets[k].token.id = DeletedUser
        /\ sockets[j].err = InvalidOrExpiredToken
        /\ sockets[j].token.secret = "access"

\* The rooms a connection was in when the 'connection' handler sent
\* estado_conexion (salas: Array.from(socket.rooms)).
RoomsAtConnect(k) == sockets[k].inbox[1].salas

\* C18: the rooms assigned at connect are: for a cook the global room, the
\* cooks room and the user's room; for a waiter the global room, the
\* waiters room and the user's room; for an administrator the global room,
\* the administrators, cooks and waiters rooms and the user's room; for any
\* other role the global room and the user's room only; two connections of
\* the same role and user get the same rooms.
C18_RoomsFollowRole ==
    /\ \A k \in 1..Len(sockets) :
          sockets[k].state # "rejected" =>
             LET own == {"notificaciones_globales",
                         "usuario_" \o ToString(sockets[k].userId)}
             IN RoomsAtConnect(k) =
                   IF sockets[k].userRol = "cocinero"
                   THEN own \cup {"cocineros"}
                   ELSE IF sockets[k].userRol = "mesero"
                   THEN own \cup {"meseros"}
                   ELSE IF sockets[k].userRol = "administrador"
                   THEN own \cup {"administradores", "cocineros", "meseros"}
                   ELSE own
    /\ \A k, j \in 1..Len(sockets) :
          (sockets[k].state # "rejected" /\ sockets[j].state # "rejected"
              /\ sockets[k].userRol = sockets[j].userRol
              /\ sockets[k].userId = sockets[j].userId)
             => RoomsAtConnect(k) = RoomsAtConnect(j)

\* C18 (witness): the same administrator has two open connections.
C18_Witness ==
    \E k, j \in Connected :
        /\ k # j
        /\ sockets[k].userId = sockets[j].userId
        /\ sockets[k].userRol = "administrador"

\* The messages connection k receives in a step.
Received(k) ==
    LET before == IF k <= Len(sockets) THEN Len(sockets[k].inbox) ELSE 0
    IN {sockets'[k].inbox[i] : i \in (before + 1)..Len(sockets'[k].inbox)}

\* The step emits the domain event of a new order.
NewOrderStep ==
    /\ emitted' = emitted + 1
    /\ history' # history
    /\ history'[1].type = "nuevo_pedido"

\* C19: when a new order is emitted, every open connection whose role is
\* cook receives nuevo_pedido for that order; and in no step does a
\* connection whose role is not administrator receive actualizar_dashboard.
C19_CookGetsOrdersNotDashboard ==
    [][/\ NewOrderStep =>
             \A k \in Connected :
                sockets[k].userRol = "cocinero" =>
                   \E m \in Received(k) :
                      /\ m.event = "nuevo_pedido"
                      /\ m.pedido_id = history'[1].pedido_id
       /\ \A k \in 1..Len(sockets') :
             \A m \in Received(k) :
                m.event = "actualizar_dashboard"
                   => sockets'[k].userRol = "administrador"]_socketVars

\* C19 (witness): a new order was emitted while a cook and an administrator
\* were connected; the cook has its nuevo_pedido and the administrator its
\* actualizar_dashboard.
C19_Witness ==
    \E k, j \in Connected :
        /\ sockets[k].userRol = "cocinero"
        /\ sockets[j].userRol = "administrador"
        /\ \E i \in 1..Len(sockets[k].inbox) :
              sockets[k].inbox[i].event = "nuevo_pedido"
        /\ \E i \in 1..Len(sockets[j].inbox) :
              sockets[j].inbox[i].event = "actualizar_dashboard"

\* The global room, the role rooms and the rooms of the users.
FixedRooms ==
    {"notificaciones_globales", "cocineros", "meseros", "administradores"}
        \cup {"usuario_" \o ToString(u) : u \in DOMAIN Usuarios \cup {DeletedUser}}

\* The step is a client event: no connection opens or closes and no domain
\* event is emitted.
ClientEventStep ==
    /\ Len(sockets') = Len(sockets)
    /\ emitted' = emitted
    /\ \A k \in 1..Len(sockets) : sockets'[k].state = sockets[k].state

\* C20: a client event leaves every connection's membership in the global
\* room, the role rooms and the users' rooms as it was; the rooms it adds
\* or removes are none of those.
C20_ClientEventsKeepFixedRooms ==
    [][ClientEventStep =>
          \A k \in 1..Len(sockets) :
             /\ sockets'[k].rooms \cap FixedRooms = sockets[k].rooms \cap FixedRooms
             /\ sockets[k].state = "connected" =>
                   sockets'[k].rooms \cap FixedRooms = RoomsAtConnect(k)]_socketVars

\* C20 (witness): a waiter asked to join the order room of the identifier
\* "cocineros", was told so, and is in the rooms assigned at connect and in
\* that order room.
C20_Witness ==
    \E k \in Connected :
        /\ sockets[k].userRol = "mesero"
        /\ \E i \in 1..Len(sockets[k].inbox) :
              /\ sockets[k].inbox[i].event = "sala_unida"
              /\ sockets[k].inbox[i].salas = {"pedido_cocineros"}
        /\ sockets[k].rooms = RoomsAtConnect(k) \cup {"pedido_cocineros"}

\* C21: the notification history never holds more than maxHistory (6)
\* entries, whatever domain events are emitted and whenever it is cleared.
C21_HistoryHoldsAtMostSix == Len(history) <= maxHistory

\* C21 (witness): more notifications were added since the last clear than
\* the history keeps, and the history is full.
C21_Witness == Len(appended) > maxHistory /\ Len(history) = maxHistory

\* The last m elements of a sequence, the last one first.
LastReversed(seq, m) == [i \in 1..m |-> seq[Len(seq) + 1 - i]]

Min(a, b) == IF a < b THEN a ELSE b

\* C22: after n notifications added since the last clear,
\* getRecentNotifications(limit) is the last min(n, 6, limit) of them, the
\* most recent first, for every limit from 0 on; after a clear (n = 0) it is
\* the empty sequence.
C22_RecentIsLastAppendedReversed ==
    \A limit \in 0..MaxLimit :
        getRecentNotifications(history, limit)
            = LastReversed(appended, Min(Len(appended), Min(maxHistory, limit)))

\* C22 (witness): ten notifications were added since the last clear and
\* getRecentNotifications(10) returns the tenth down to the fifth.
C22_Witness ==
    /\ Len(appended) = 10
    /\ MaxLimit >= 10
    /\ getRecentNotifications(history, 10)
           = <<appended[10], appended[9], appended[8], appended[7],
               appended[6], appended[5]>>
    /\ \E i \in 1..6 : history[i].type # history[1].type

\* In this step connection k is sent the event by its client.
AskedNow(k, event) ==
    /\ k \in 1..Len(sockets)
    /\ Len(sockets'[k].asked) = Len(sockets[k].asked) + 1
    /\ sockets'[k].asked[Len(sockets'[k].asked)].event = event

\* The names of the events delivered to connection k in this step, in order.
NewEvents(k) ==
    [i \in 1..(Len(sockets'[k].inbox) - Len(sockets[k].inbox)) |->
        sockets'[k].inbox[Len(sockets[k].inbox) + i].event]

\* C23: obtener_historial from an administrator yields exactly one
\* historial_dashboard, carrying the current history, to the caller and
\* nothing to anyone else; from any other role it yields exactly one error
\* event and no snapshot; cliente_conectado yields conexion_confirmada to
\* the caller, followed by the snapshot if and only if the caller is an
\* administrator; and no connection of another role is ever delivered
\* historial_dashboard.
C23_SnapshotOnlyToAdministrators ==
    [][/\ \A k \in 1..Len(sockets) :
             /\ AskedNow(k, "obtener_historial") =>
                   /\ NewEvents(k) = IF sockets[k].userRol = "administrador"
                                     THEN <<"historial_dashboard">>
                                     ELSE <<"error">>
                   /\ sockets[k].userRol = "administrador" =>
                         sockets'[k].inbox[Len(sockets'[k].inbox)].historial
                            = history
                   /\ \A j \in 1..Len(sockets) \ {k} :
                         sockets'[j].inbox = sockets[j].inbox
             /\ AskedNow(k, "cliente_conectado") =>
                   /\ NewEvents(k) = IF sockets[k].userRol = "administrador"
                                     THEN <<"conexion_confirmada",
                                            "historial_dashboard">>
                                     ELSE <<"conexion_confirmada">>
                   /\ \A j \in 1..Len(sockets) \ {k} :
                         sockets'[j].inbox = sockets[j].inbox
       /\ \A k \in 1..Len(sockets') :
             \A m \in Received(k) :
                m.event = "historial_dashboard"
                   => sockets'[k].userRol = "administrador"]_socketVars

\* C23 (witness): while the history held a notification, a cook asked for
\* it and was delivered one error event and no snapshot.
C23_Witness ==
    \E k \in Connected :
        /\ sockets[k].userRol = "cocinero"
        /\ history # <<>>
        /\ sockets[k].asked = <<[event |-> "obtener_historial",
                                 pedidoId |-> NoPedidoId]>>
        /\ [i \in 1..Len(sockets[k].inbox) |-> sockets[k].inbox[i].event]
              = <<"estado_conexion", "error">>

\* data.pedidoId of the event that connection k is sent in this step.
AskedPedidoId(k) == sockets'[k].asked[Len(sockets'[k].asked)].pedidoId

\* C24: unir_sala_pedido adds the room of the order named to the rooms of
\* the caller and nothing else, so that joining a room the connection is
\* already in leaves its rooms as they are; salir_sala_pedido removes that
\* order's room and nothing else, so that leaving a room the connection is
\* not in changes nothing; and neither touches the rooms of anyone else.
C24_JoinIsIdempotent ==
    [][\A k \in 1..Len(sockets) :
          /\ (AskedNow(k, "unir_sala_pedido") /\ Truthy(AskedPedidoId(k))) =>
                /\ sockets'[k].rooms
                      = sockets[k].rooms \cup {PedidoRoom(AskedPedidoId(k))}
                /\ PedidoRoom(AskedPedidoId(k)) \in sockets[k].rooms
                      => sockets'[k].rooms = sockets[k].rooms
          /\ (AskedNow(k, "salir_sala_pedido") /\ Truthy(AskedPedidoId(k))) =>
                /\ sockets'[k].rooms
                      = sockets[k].rooms \ {PedidoRoom(AskedPedidoId(k))}
                /\ PedidoRoom(AskedPedidoId(k)) \notin sockets[k].rooms
                      => sockets'[k].rooms = sockets[k].rooms
          /\ (AskedNow(k, "unir_sala_pedido") \/ AskedNow(k, "salir_sala_pedido")) =>
                \A j \in 1..Len(sockets) \ {k} :
                   sockets'[j].rooms = sockets[j].rooms]_socketVars

\* C24 (witness): a cashier joined the room of order 1 twice and then left
\* the room of order 2, which it was not in; it is in the rooms assigned at
\* connect and in the room of order 1.
C24_Witness ==
    \E k \in Connected :
        /\ sockets[k].userRol = "cajero"
        /\ sockets[k].asked
              = <<[event |-> "unir_sala_pedido", pedidoId |-> Num(1)],
                  [event |-> "unir_sala_pedido", pedidoId |-> Num(1)],
                  [event |-> "salir_sala_pedido", pedidoId |-> Num(2)]>>
        /\ sockets[k].rooms = RoomsAtConnect(k) \cup {"pedido_1"}

\* In this step the emitter of this kind of domain event is called.
EmitterStep(kind) == emitted' = emitted + 1 /\ lastEvent'.kind = kind

\* The positions of the inbox of connection k filled in this step.
NewPositions(k) == (Len(sockets[k].inbox) + 1)..Len(sockets'[k].inbox)

\* How many messages of this event name connection k is delivered in this
\* step.
Delivered(k, event) ==
    Cardinality({i \in NewPositions(k) : sockets'[k].inbox[i].event = event})

\* How many of these rooms connection k is in, if it is open.
Memberships(k, rooms) ==
    IF sockets[k].state = "connected"
    THEN Cardinality(sockets[k].rooms \cap rooms)
    ELSE 0

\* In this step exactly one notification of this type, about the order the
\* emitter was called with, is put in front of the history, which keeps its
\* earlier entries in order up to maxHistory entries in all.
AppendsOne(type) ==
    /\ history' # <<>>
    /\ history'[1].type = type
    /\ history'[1].pedido_id = lastEvent'.pedido_id
    /\ history'[1].ev = emitted'
    /\ appended' = Append(appended, history'[1])
    /\ Len(history') = Min(Len(history) + 1, maxHistory)
    /\ \A i \in 2..Len(history') : history'[i] = history[i - 1]

\* Every message delivered in this step is about the order, or the table,
\* that the emitter was called with, and carries the ordinal of the event.
AboutTheEvent ==
    \A k \in 1..Len(sockets) :
        \A i \in NewPositions(k) :
            /\ sockets'[k].inbox[i].pedido_id = lastEvent'.pedido_id
            /\ sockets'[k].inbox[i].mesa_id = lastEvent'.mesa_id
            /\ sockets'[k].inbox[i].ev = emitted'

\* Connection k is delivered no event in this step but those named.
NothingBut(k, events) ==
    \A i \in NewPositions(k) : sockets'[k].inbox[i].event \in events

\* C25: a new order puts exactly one notification, about that order, in the
\* history; nuevo_pedido is delivered once for each of the rooms cocineros
\* and meseros that an open connection is in; actualizar_dashboard is
\* delivered once to the connections in administradores and to no other;
\* every one of these messages names the created order.
C25_NewOrderFanOut ==
    [][EmitterStep("nuevo_pedido") =>
          /\ AppendsOne("nuevo_pedido")
          /\ AboutTheEvent
          /\ \A k \in 1..Len(sockets) :
                /\ Delivered(k, "nuevo_pedido")
                      = Memberships(k, {"cocineros", "meseros"})
                /\ Delivered(k, "actualizar_dashboard")
                      = Memberships(k, {"administradores"})
                /\ NothingBut(k, {"nuevo_pedido", "actualizar_dashboard"})]_socketVars

\* C25 (witness): order 2 was created while a waiter and an administrator
\* were connected: the history holds its notification, the waiter has one
\* nuevo_pedido for order 2 and the administrator has actualizar_dashboard
\* for order 2.
C25_Witness ==
    /\ lastEvent = [kind |-> "nuevo_pedido", pedido_id |-> 2, mesa_id |-> 0]
    /\ Len(history) = 1 /\ history[1].pedido_id = 2
    /\ \E k, j \in Connected :
          /\ sockets[k].userRol = "mesero"
          /\ sockets[j].userRol = "administrador"
          /\ [i \in 1..Len(sockets[k].inbox) |->
                 <<sockets[k].inbox[i].event, sockets[k].inbox[i].pedido_id>>]
                = <<<<"estado_conexion", 0>>, <<"nuevo_pedido", 2>>>>
          /\ \E i \in 1..Len(sockets[j].inbox) :
                /\ sockets[j].inbox[i].event = "actualizar_dashboard"
                /\ sockets[j].inbox[i].pedido_id = 2

\* Connection k asked to join this room and, later, to leave it, and has
\* not asked to join it since.
JoinedThenLeft(k, room) ==
    LET asks == sockets[k].asked
        names(i, event) == /\ asks[i].event = event
                           /\ Truthy(asks[i].pedidoId)
                           /\ PedidoRoom(asks[i].pedidoId) = room
    IN \E i, j \in 1..Len(asks) :
          /\ i < j
          /\ names(i, "unir_sala_pedido")
          /\ names(j, "salir_sala_pedido")
          /\ \A l \in (j + 1)..Len(asks) : ~names(l, "unir_sala_pedido")

\* C26: a state change of an order puts exactly one notification in the
\* history; cambio_estado_pedido is delivered once for each of the rooms
\* cocineros, meseros and pedido_<id of that order> that an open connection
\* is in, and for no other room; actualizar_dashboard goes to the
\* connections in administradores only; a connection that joined the room
\* of the order and then left it gets the copies of its role rooms alone.
C26_StateChangeFanOut ==
    [][EmitterStep("cambio_estado_pedido") =>
          LET sala == "pedido_" \o ToString(lastEvent'.pedido_id)
          IN /\ AppendsOne("cambio_estado_pedido")
             /\ AboutTheEvent
             /\ \A k \in 1..Len(sockets) :
                   /\ Delivered(k, "cambio_estado_pedido")
                         = Memberships(k, {"cocineros", "meseros", sala})
                   /\ JoinedThenLeft(k, sala) =>
                         Delivered(k, "cambio_estado_pedido")
                            = Memberships(k, {"cocineros", "meseros"})
                   /\ Delivered(k, "actualizar_dashboard")
                         = Memberships(k, {"administradores"})
                   /\ NothingBut(k, {"cambio_estado_pedido",
                                     "actualizar_dashboard"})]_socketVars

\* C26 (witness): a cook joined the room of order 1 and left it, and a
\* cashier joined the room of order 2; then order 1 changed state: the cook
\* has the one copy of the cooks room and the cashier has none.
C26_Witness ==
    /\ lastEvent = [kind |-> "cambio_estado_pedido", pedido_id |-> 1, mesa_id |-> 0]
    /\ \E k, j \in Connected :
          /\ sockets[k].userRol = "cocinero"
          /\ sockets[j].userRol = "cajero"
          /\ [i \in 1..Len(sockets[k].inbox) |-> sockets[k].inbox[i].event]
                = <<"estado_conexion", "sala_unida", "sala_abandonada",
                    "cambio_estado_pedido">>
          /\ sockets[k].inbox[2].salas = {"pedido_1"}
          /\ sockets[k].inbox[3].salas = {"pedido_1"}
          /\ "pedido_2" \in sockets[j].rooms
          /\ Len(sockets[j].inbox) = 2

\* C27: a cancellation puts exactly one notification in the history;
\* pedido_cancelado is delivered exactly once to every open connection,
\* whatever its role, and to no closed or rejected one; and
\* actualizar_dashboard is delivered to the connections in administradores
\* only.
C27_CancellationReachesEveryone ==
    [][EmitterStep("pedido_cancelado") =>
          /\ AppendsOne("pedido_cancelado")
          /\ AboutTheEvent
          /\ \A k \in 1..Len(sockets) :
                /\ Delivered(k, "pedido_cancelado")
                      = IF sockets[k].state = "connected" THEN 1 ELSE 0
                /\ Delivered(k, "actualizar_dashboard")
                      = IF /\ sockets[k].state = "connected"
                           /\ sockets[k].userRol = "administrador"
                        THEN 1 ELSE 0
                /\ NothingBut(k, {"pedido_cancelado",
                                  "actualizar_dashboard"})]_socketVars

\* C27 (witness): order 1 was cancelled while a cashier and an
\* administrator were connected: the cashier has pedido_cancelado alone, the
\* administrator has it and actualizar_dashboard.
C27_Witness ==
    /\ lastEvent = [kind |-> "pedido_cancelado", pedido_id |-> 1, mesa_id |-> 0]
    /\ \E k, j \in Connected :
          /\ sockets[k].userRol = "cajero"
          /\ sockets[j].userRol = "administrador"
          /\ [i \in 1..Len(sockets[k].inbox) |-> sockets[k].inbox[i].event]
                = <<"estado_conexion", "pedido_cancelado">>
          /\ [i \in 1..Len(sockets[j].inbox) |-> sockets[j].inbox[i].event]
                = <<"estado_conexion", "pedido_cancelado",
                    "actualizar_dashboard">>

\* C28: a table update leaves the history as it is; mesa_actualizada is
\* delivered once for each of the rooms meseros and administradores that an
\* open connection is in and nothing else is delivered; and in no step is a
\* connection whose role is cook delivered mesa_actualizada.
C28_TableUpdateSkipsHistory ==
    [][/\ EmitterStep("mesa_actualizada") =>
             /\ history' = history
             /\ appended' = appended
             /\ AboutTheEvent
             /\ \A k \in 1..Len(sockets) :
                   /\ Delivered(k, "mesa_actualizada")
                         = Memberships(k, {"meseros", "administradores"})
                   /\ NothingBut(k, {"mesa_actualizada"})
       /\ \A k \in 1..Len(sockets) :
             sockets[k].userRol = "cocinero"
                => Delivered(k, "mesa_actualizada") = 0]_socketVars

\* C28 (witness): after a new order, table 1 was updated while a cook and a
\* waiter were connected: the waiter has mesa_actualizada, the cook has not,
\* and the history still holds the notification of the order alone.
C28_Witness ==
    /\ lastEvent = [kind |-> "mesa_actualizada", pedido_id |-> 0, mesa_id |-> 1]
    /\ Len(history) = 1 /\ history[1].type = "nuevo_pedido"
    /\ \E k, j \in Connected :
          /\ sockets[k].userRol = "cocinero"
          /\ sockets[j].userRol = "mesero"
          /\ [i \in 1..Len(sockets[k].inbox) |-> sockets[k].inbox[i].event]
                = <<"estado_conexion", "nuevo_pedido">>
          /\ [i \in 1..Len(sockets[j].inbox) |-> sockets[j].inbox[i].event]
                = <<"estado_conexion", "nuevo_pedido", "mesa_actualizada">>
          /\ sockets[j].inbox[3].mesa_id = 1

\* C29: when a refresh request detected reuse and revoked the sessions of a
\* user (line 663), and a rotation of one of that user's sessions that had
\* read its row before that revocation was answered 200, then, both being
\* answered, the successor row of that rotation is not ACTIVE.
C29_RevocationBeatsInFlightRotation ==
    \A r, d \in Refreshes \cap Done :
        (/\ reqs[r].status = 200
         /\ reqs[d].exit = 663
         /\ reqs[d].token.id = reqs[r].token.id
         /\ d \notin reqs[r].preceded)
            => \A pk \in Pks :
                  sessions[pk].token_hash = hashToken(reqs[r].issued)
                     => ~IsActive(sessions[pk])

\* The rows are threaded: a row that names a successor is revoked and the
\* row that stores the hash it names exists; an ACTIVE row names none.
Threaded ==
    \A pk \in Pks :
        /\ sessions[pk].replaced_by_token_hash # NullHash =>
              /\ sessions[pk].revoked_at # NullDate
              /\ \E q \in Pks :
                    sessions[q].token_hash = sessions[pk].replaced_by_token_hash
        /\ IsActive(sessions[pk]) =>
              sessions[pk].replaced_by_token_hash = NullHash

\* The rotation of request r fails in this step: it had read its row and is
\* answered something else than 200.
RotationFails(r) ==
    /\ r \in 1..Len(reqs)
    /\ reqs[r].pc = "rotate"
    /\ reqs'[r].pc = "done"
    /\ reqs'[r].status # 200

\* C30: in every state the rows are threaded; and a rotation whose
\* transaction fails leaves the table as it was, so that the row it read is
\* ACTIVE if it was and there is no successor row, and issues no token.
C30_RotationIsAllOrNothing ==
    /\ []Threaded
    /\ [][\A r \in 1..Len(reqs) :
             RotationFails(r) =>
                /\ sessions' = sessions
                /\ reqs'[r].issued = NoToken
                /\ reqs'[r].cookie # "set"]_vars

\* C30 (witness): one rotation committed, leaving a revoked row that names
\* its successor, and the rotation of another session failed, leaving the
\* row it had read ACTIVE and unreplaced.
C30_Witness ==
    /\ \E pk \in Pks : sessions[pk].replaced_by_token_hash # NullHash
    /\ \E r \in Refreshes \cap Done :
          /\ reqs[r].found # 0
          /\ reqs[r].status = 403
          /\ reqs[r].error = "db"
          /\ IsActive(sessions[reqs[r].found])
          /\ sessions[reqs[r].found].replaced_by_token_hash = NullHash
          /\ Len(sessions) = 3

\* The row that matches the token's sessionId, userId and hash is unrevoked
\* and has expires_at <= t.
ExpiredRowMatches(rows, token, t) ==
    \E pk \in 1..Len(rows) :
        /\ rows[pk].session_id = token.sessionId
        /\ rows[pk].usuario_id = token.id
        /\ rows[pk].token_hash = hashToken(token)
        /\ rows[pk].revoked_at = NullDate
        /\ rows[pk].expires_at <= t

\* Rows of a user that are unrevoked and unexpired at t.
LiveIn(rows, userId, t) ==
    {pk \in ActiveIn(rows, userId) : rows[pk].expires_at > t}

\* C31 (as claimed): a refresh whose matching row is unrevoked with
\* expires_at <= now never rotates, and when it is answered the status is
\* 403 and the user has no unrevoked, unexpired session left.
C31_ExpiredRowIsHandledAsReuse ==
    [][\A r \in 1..Len(reqs') :
          (/\ reqs'[r].kind = "refresh"
           /\ ExpiredRowMatches(sessions, reqs'[r].token, now)) =>
             /\ Arrives(r) => reqs'[r].pc # "rotate"
             /\ Completes(r) =>
                   /\ reqs'[r].status = 403
                   /\ LiveIn(sessions', reqs'[r].token.id, now) = {}]_vars

\* C31 (amended): such a refresh never rotates and is answered 403 with the
\* cookie cleared; with a signed lifetime that does not exceed the lifetime
\* of the row, the token itself has expired by then, jwt.verify throws, the
\* answer is that of the catch block (line 698) and no row is changed.
C31_ExpiredRowIsRejectedByVerify ==
    [][\A r \in 1..Len(reqs') :
          (/\ reqs'[r].kind = "refresh"
           /\ Arrives(r)
           /\ ExpiredRowMatches(sessions, reqs'[r].token, now)) =>
             /\ ~jwtVerify(reqs'[r].token, "refresh", now)
             /\ reqs'[r].pc = "done"
             /\ reqs'[r].status = 403
             /\ reqs'[r].cookie = "cleared"
             /\ reqs'[r].exit = 698
             /\ reqs'[r].issued = NoToken
             /\ sessions' = sessions]_vars

\* C31 (witness): a refresh presented a token whose row was unrevoked and
\* had expired, was answered 403 by the catch block, and another session
\* of the same user is still unrevoked and unexpired.
C31_Witness ==
    \E r \in Refreshes \cap Done :
        /\ reqs[r].status = 403
        /\ reqs[r].error = "jwt"
        /\ ExpiredRowMatches(sessions, reqs[r].token, now)
        /\ LiveIn(sessions, reqs[r].token.id, now) # {}

\* A connection is opened in this step, as connection k.
Opens(k) == k = Len(sockets) + 1 /\ Len(sockets') = k

\* C32: whether a handshake is accepted is decided by the access token
\* presented (its signature and its expiry) and by the existence of its
\* user, whatever the session table holds: revoked, rotated or no row at
\* all for that user.
C32_HandshakeIgnoresSessionStore ==
    [][\A k \in 1..Len(sockets') :
          Opens(k) =>
             (sockets'[k].state = "connected"
                 <=> /\ sockets'[k].token # NoToken
                     /\ jwtVerify(sockets'[k].token, "access", now)
                     /\ sockets'[k].token.id \in DOMAIN Usuarios)]_<<vars, socketVars>>

\* C32 (witness): a connection is open for a user whose only session was
\* revoked by a logout answered before: the access token of the login was
\* accepted after the logout.
C32_Witness ==
    \E k \in Connected, l \in Logins, o \in Logouts \cap Done :
        /\ sockets[k].token = reqs[l].access
        /\ reqs[o].token = reqs[l].issued
        /\ reqs[o].exit = 728
        /\ Len(sessions) = 1
        /\ sessions[1].revoked_at # NullDate
        /\ sessions[1].revoked_at < sockets[k].token.exp

\* Two requests are interleaved: neither was answered when the other
\* arrived.
Interleaved(r, o) == o \notin reqs[r].preceded /\ r \notin reqs[o].preceded

\* C33: when a logout that ran its update (line 728) and a refresh were
\* interleaved and presented the same refresh token, then, both being
\* answered, no row of the rotation chain of that token's row is ACTIVE.
C33_LogoutBeatsInFlightRotation ==
    \A r \in Refreshes \cap Done, o \in Logouts \cap Done :
        (/\ reqs[r].token = reqs[o].token
         /\ reqs[o].exit = 728
         /\ Interleaved(r, o))
            => \A pk \in Pks :
                  sessions[pk].token_hash = hashToken(reqs[r].token)
                     => \A q \in Range(Chain(pk)) : ~IsActive(sessions[q])

\* The row that stores the hash of this token was rotated: it is revoked
\* and names a successor.
Rotated(token) ==
    /\ ~TokenMissing(token)
    /\ \E pk \in Pks :
          /\ sessions[pk].token_hash = hashToken(token)
          /\ sessions[pk].revoked_at # NullDate
          /\ sessions[pk].replaced_by_token_hash # NullHash

\* C34: the logout handler, given a refresh token whose row was already
\* rotated, leaves the session table as it is: no row changes, and the
\* successor of that row, ACTIVE before, is ACTIVE after.
C34_LogoutOfRotatedTokenChangesNothing ==
    [][\A o \in 1..Len(reqs') :
          (/\ Arrives(o)
           /\ reqs'[o].kind = "logout"
           /\ Rotated(reqs'[o].token))
              => sessions' = sessions]_vars

\* C34 (witness): a logout ran its update (line 728) with a token that a
\* rotation answered before had replaced, and the row of the token that
\* rotation issued is ACTIVE.
C34_Witness ==
    \E o \in Logouts \cap Done, r \in Refreshes \cap Done :
        /\ reqs[o].exit = 728
        /\ reqs[o].error = "none"
        /\ ~TokenMissing(reqs[o].token)
        /\ reqs[r].token = reqs[o].token
        /\ reqs[r].status = 200
        /\ r \in reqs[o].preceded
        /\ \E pk \in Pks :
              /\ sessions[pk].token_hash = hashToken(reqs[r].issued)
              /\ sessions[pk].session_id # reqs[o].token.sessionId
              /\ IsActive(sessions[pk])

\* Before request r arrived, a logout presenting the same refresh token had
\* run its update and been answered.
LoggedOutBefore(r) ==
    \E o \in Logouts \cap Done :
        /\ o \in reqs'[r].preceded
        /\ ~TokenMissing(reqs[o].token)
        /\ reqs[o].token = reqs'[r].token
        /\ reqs[o].exit = 728
        /\ reqs[o].error = "none"

\* Request r arrives with a refresh token that verifies, or had done so and
\* found no active row.
PresentsLiveToken(r) ==
    \/ Arrives(r) /\ jwtVerify(reqs'[r].token, "refresh", now)
    \/ ReuseCase(r)

LoginsOf(userId) == {l \in Logins : reqs[l].user = userId}
RefreshOrLogoutOf(userId) ==
    {i \in Refreshes \cup Logouts :
        ~TokenMissing(reqs[i].token) /\ reqs[i].token.id = userId}

\* C36: a login answered 200 appends one row and leaves every earlier row
\* as it was; and as long as no refresh and no logout was received for a
\* user, that user has as many ACTIVE rows as successful logins, one per
\* login, and the lookup of the refresh handler finds the row of each login
\* whose token still verifies.
C36_LoginIsPurelyAdditive ==
    /\ [][\A r \in 1..Len(reqs') :
             (Completes(r) /\ reqs'[r].kind = "login" /\ reqs'[r].status = 200) =>
                /\ Len(sessions') = Len(sessions) + 1
                /\ \A pk \in Pks : sessions'[pk] = sessions[pk]]_vars
    /\ [](\A u \in Users :
             RefreshOrLogoutOf(u) = {} =>
                /\ Cardinality(ActiveOf(u)) = Cardinality(LoginsOf(u))
                /\ \A l \in LoginsOf(u) :
                      /\ PkOfHash(hashToken(reqs[l].issued)) \in ActiveOf(u)
                      /\ jwtVerify(reqs[l].issued, "refresh", now) =>
                            FindActiveSession(sessions, reqs[l].issued,
                                              hashToken(reqs[l].issued), now)
                               = PkOfHash(hashToken(reqs[l].issued)))

\* C36 (witness): one user logged in three times at two different times and
\* nothing else was received for that user: three ACTIVE rows, and the token
\* of the first login still verifies.
C36_Witness ==
    \E u \in Users :
        /\ RefreshOrLogoutOf(u) = {}
        /\ Cardinality(LoginsOf(u)) = 3
        /\ Cardinality(ActiveOf(u)) = 3
        /\ \E l, m \in LoginsOf(u) :
              /\ reqs[l].issued.exp < reqs[m].issued.exp
              /\ jwtVerify(reqs[l].issued, "refresh", now)

\* The names of the events the server sends.
OutboundEvents ==
    {"estado_conexion", "historial_notificaciones", "sala_unida", "error",
     "nuevo_pedido", "cambio_estado_pedido", "pedido_cancelado",
     "mesa_actualizada", "actualizar_dashboard"}

\* C37: in the step of one new order or of one state change, a connection
\* receives each outbound event name at most once, whatever rooms it is in.
C37_OneDeliveryPerEventName ==
    [][(EmitterStep("nuevo_pedido") \/ EmitterStep("cambio_estado_pedido")) =>
          \A k \in 1..Len(sockets), event \in OutboundEvents :
              Delivered(k, event) <= 1]_socketVars

\* The refresh requests that are in flight.
Pending == {q \in 1..Len(refreshes) : refreshes[q].state = "pending"}

\* Call c calls refreshAccessToken in this step.
CallsRefresh(c) ==
    /\ c \in 1..Len(calls')
    /\ calls'[c].refreshCalls > IF c <= Len(calls) THEN calls[c].refreshCalls ELSE 0

\* C38: at most one request to auth/refresh-token is in flight and the
\* shared promise is that request, or null when none is; a call of
\* refreshAccessToken made while one is in flight sends nothing and waits
\* for that one, one made when none is sends a new request; and when the
\* request settles the shared promise is cleared, on success and on failure,
\* and every caller waiting for it gets its outcome: on success all of them
\* send with the token it returned, on failure all of them go to their
\* catch without sending.
C38_OneRefreshInFlight ==
    /\ [](/\ Cardinality(Pending) <= 1
          /\ \A q \in 1..Len(refreshes) :
                q \in Pending <=> refreshInFlightPromise = q)
    /\ [][/\ \A c \in 1..Len(calls') :
                CallsRefresh(c) =>
                   IF refreshInFlightPromise # NoPromise
                   THEN /\ Len(refreshes') = Len(refreshes)
                        /\ refreshInFlightPromise' = refreshInFlightPromise
                        /\ calls'[c].awaits = refreshInFlightPromise
                   ELSE /\ Len(refreshes') = Len(refreshes) + 1
                        /\ refreshInFlightPromise' = Len(refreshes')
                        /\ calls'[c].awaits = Len(refreshes')
          /\ \A q \in Pending :
                q \notin Pending' =>
                   /\ refreshInFlightPromise' = NoPromise
                   /\ \A c \in Waiting(q) :
                         IF refreshes'[q].state = "fulfilled"
                         THEN /\ calls'[c].pc \in {"sent", "resent"}
                              /\ calls'[c].sends = calls[c].sends + 1
                              /\ calls'[c].bearer = refreshes'[q].accessToken
                         ELSE /\ calls'[c].pc \in {"done", "logoutOuter"}
                              /\ calls'[c].sends = calls[c].sends]_clientVars

\* C38 (witness): two calls waited for the first refresh request and were
\* sent with its token once it succeeded; one of them was then answered 401
\* and, the shared promise being null again, a second refresh request is in
\* flight for it.
C38_Witness ==
    /\ Len(refreshes) = 2
    /\ refreshes[1].callers = 2 /\ refreshes[1].state = "fulfilled"
    /\ refreshes[2].callers = 1 /\ refreshInFlightPromise = 2
    /\ \E c, d \in 1..Len(calls) :
          /\ c # d
          /\ calls[c].pc = "awaitRefresh" /\ calls[c].awaits = 2
          /\ calls[c].bearer = 1 /\ calls[d].bearer = 1

\* The calls made through fetchAPI (api.logout is not one).
FetchCalls == {c \in 1..Len(calls) : calls[c].via = "fetchAPI"}

\* The retry of call c is answered 401 or 403 in this step.
RetryRefused(c) ==
    /\ c \in FetchCalls
    /\ calls[c].pc = "resent"
    /\ calls'[c].pc # "resent"
    /\ calls'[c].status \in {401, 403}

\* No call sends its request more than twice or retries more than once; the
\* retry that is answered 401 or 403 goes to performLogout without calling
\* refreshAccessToken, and the call ends with the error 'No autorizado'.
OneRetry ==
    /\ [](\A c \in FetchCalls :
             /\ calls[c].sends <= 2
             /\ calls[c].retries <= 1
             /\ calls[c].sends <= 1 + calls[c].retries
             /\ (/\ calls[c].pc = "done"
                 /\ calls[c].retries = 1
                 /\ calls[c].status \in {401, 403})
                   => /\ calls[c].result = "No autorizado"
                      /\ calls[c].logouts >= 1)
    /\ [][\A c \in 1..Len(calls) :
             RetryRefused(c) =>
                /\ calls'[c].pc = "logoutInner"
                /\ calls'[c].logouts = calls[c].logouts + 1
                /\ calls'[c].refreshCalls = calls[c].refreshCalls
                /\ calls'[c].sends = calls[c].sends
                /\ refreshes' = refreshes]_clientVars

\* Every request being eventually settled, every call ends.
EveryCallEnds == <>[](\A c \in 1..Len(calls) : calls[c].pc = "done")

\* C39 (as claimed): a call retries at most once and sends at most twice, a
\* refused retry ends in logout and an error, every call ends; and a call
\* that is public or is to auth/login, auth/refresh-token or auth/logout
\* never calls refreshAccessToken.
C39_AtMostTwoSendsNoRefreshForAuth ==
    /\ OneRetry
    /\ EveryCallEnds
    /\ [](\A c \in FetchCalls :
             (calls[c].isPublic \/ calls[c].endpoint \in AuthEndpoints)
                => calls[c].refreshCalls = 0)

\* C39 (amended): the same, where a public call never calls
\* refreshAccessToken, and a protected call to one of the three auth
\* endpoints never does so on a response, is never retried and is sent at
\* most once; it calls refreshAccessToken at most once, before its send,
\* when no access token was stored.
C39_AtMostTwoSendsNoRetryForAuth ==
    /\ OneRetry
    /\ EveryCallEnds
    /\ [](\A c \in FetchCalls :
             /\ calls[c].isPublic => calls[c].refreshCalls = 0
             /\ calls[c].refreshedOn \subseteq {401, 403}
             /\ calls[c].refreshCalls <= 2
             /\ calls[c].endpoint \in AuthEndpoints
                   => /\ calls[c].refreshedOn = {}
                      /\ calls[c].retries = 0
                      /\ calls[c].sends <= 1
                      /\ calls[c].refreshCalls <= 1)
    /\ [][\A c \in 1..Len(calls') :
             (CallsRefresh(c) /\ calls'[c].endpoint \in AuthEndpoints)
                => /\ c = Len(calls) + 1
                   /\ accessToken = NoAccessToken
                   /\ ~calls'[c].isPublic]_clientVars

\* C39 (witness): a call to a business endpoint was answered 401, refreshed,
\* was sent again, was answered 401 again and ended with 'No autorizado'
\* after logging out, two sends in all; and a protected call to an auth
\* endpoint, made when no token was stored, called refreshAccessToken once,
\* was sent once, was answered 401 and ended without a retry.
C39_Witness ==
    \E c, d \in FetchCalls :
        /\ calls[c].endpoint = "pedidos"
        /\ calls[c].pc = "done" /\ calls[c].result = "No autorizado"
        /\ calls[c].sends = 2 /\ calls[c].retries = 1
        /\ calls[c].status = 401 /\ calls[c].refreshedOn = {401}
        /\ calls[c].logouts = 2
        /\ calls[d].endpoint \in AuthEndpoints /\ ~calls[d].isPublic
        /\ calls[d].pc = "done" /\ calls[d].status = 401
        /\ calls[d].refreshCalls = 1 /\ calls[d].sends = 1

\* The sockets that were created and not closed.
LiveInstances == {i \in 1..Len(instances) : instances[i].state # "closed"}

\* C40: every connection attempt that a call of connectSocket started
\* presents, in the handshake, the access token that localStorage held when
\* connectSocket was called; a call made when none was stored returned null
\* and started no attempt; and at most one socket exists that was not
\* closed.
C40_HandshakePresentsStoredToken ==
    /\ \A n \in 1..Len(connects) :
          /\ connects[n].attempt => connects[n].presented = connects[n].stored
          /\ connects[n].stored = NoAccessToken
                => connects[n].returned = NoSocket /\ ~connects[n].attempt
    /\ Cardinality(LiveInstances) <= 1
====
